---- MODULE Spec2Model ----
(***************************************************************************)
(* A model of the Jobcan extension's session/scraping engine               *)
(* (clins1994/jobcan): the Session Store and Session Manager (auth.ts),    *)
(* the Authenticated Fetcher and Clock Executor (api.ts), Form Field       *)
(* Discovery (clock-fields.ts) and the handlers of search-attendance.tsx   *)
(* that drive them.                                                        *)
(*                                                                         *)
(* Asynchronous functions are modelled as control-flow graphs.  Every      *)
(* label is one awaited operation (a LocalStorage call or a fetch): the    *)
(* step at a label performs the operation and runs the synchronous code    *)
(* that follows it, up to the next awaited operation.  Steps of different  *)
(* tasks interleave freely, as promise continuations do.                   *)
(***************************************************************************)
EXTENDS Integers, Sequences, FiniteSets, TLC

\* ------------------------------------------------------------------ bounds
\* How many session identifiers the server hands out in one run.
MaxIssued == 2
\* How many top-level calls one task starts in one run.
MaxCalls == 1
\* How many days the attendance list shows as absences.
MaxDates == 2
\* How many form elements the modify page holds.
MaxElements == 2
\* How many rows the table body of an attendance document holds.
MaxRows == 2
\* How many status codes a raw attendance entry carries.
MaxCodes == 2
\* The arguments of a mergeCookies call.
MaxHeaders == 3

\* --------------------------------------------------------------- constants
\* CACHE_TTL.SESSION: 24 * 60 * 60 * 1000 ms.
SESSION == 86400000
\* The safety buffer of ensureValidSession: 5 * 60 * 1000 ms.
BUFFER == 300000
\* maxRedirects of login's redirect-following phase.
maxRedirects == 5
\* CACHE_TTL.ATTENDANCE: 5 * 60 * 1000 ms.
ATTENDANCE == 300000

\* The two promise chains the program runs side by side (Promise.all of two
\* getAttendance calls; a handler triggered again while one is suspended).
Tasks == {1, 2}

\* A LocalStorage key that holds nothing (getItem returns undefined).
NONE == -1

\* The instants at which the clock is read: the start, and the instants
\* around the stored session's buffer and expiry.
Instants == {0, 1, SESSION - BUFFER, SESSION - BUFFER + 1, SESSION, SESSION + 1}

VARIABLES
  now,      \* Date.now()
  prefs,    \* getPreferenceValues(): autoReloginOnRefreshFailure, email, password set
  store,    \* LocalStorage: the three session keys
  issued,   \* session identifiers the server has handed out so far
  pc,       \* per task: the awaited operation it is suspended at
  stack,    \* per task: the labels its callers resume at
  op,       \* per task: the top-level call it runs
  calls,    \* per task: top-level calls started so far
  session,  \* per task: what getStoredSession has read
  res,      \* per task: the outcome of the call that returned last
  trace,    \* per task: the requests its top-level call has sent
  lg,       \* per task: login's locals (sid, cookies, redirectCount)
  evs,      \* per task: what ensureValidSession was given and decided: the keys
            \* read for it and when, the session it got and when, its branch
  att,      \* per task: getAttendance's locals (headers, responses)
  clk,      \* per task: clockInOut's arguments and locals (modifyData, groupId)
  lock,          \* clockingLockRef.current: the dates being clocked
  entries,       \* the dates the rendered list shows with status Absence
  logged,        \* server: the dates that have a clock-in and a clock-out
  liveSchema,    \* server: the fingerprint of the modify page's form
  storedSchema,  \* LocalStorage: the stored fingerprint
  remembered,    \* LocalStorage: the remembered value of the notice field
  ui,            \* per task: the locals of the handler it runs
  started,       \* every clockInOut call a handler has started
  inflight,      \* the clockInOut calls started and not yet settled
  overlap,       \* the pairs of bulk invocations that ran at the same time
  page,          \* server: the form elements of the modify page, in document order
  fetch1,        \* the first fetch of the page: its fields and their fingerprint
  fetch2,        \* the second fetch: its fields and the verdict of hasFieldSchemaChanged
  variant,       \* a rearranged or altered copy of the first fetch's fields
  cache,         \* LocalStorage: the keys of the cached attendance records
  sweep,         \* the clearCache calls that are running: the keys each has left
  timestamp,     \* LocalStorage: the timestamp of the record under each attendance key
  gc,            \* per task: the key and the locals of a getCached or setCached call
  doc,           \* an attendance document: the rows of its table body
  today,         \* the day of the month new Date() falls on
  parses,        \* what the calls of parseAttendanceHtml on doc returned, in order
  raw,           \* a raw attendance entry
  processed,     \* transformAttendanceEntry(raw)
  headers,       \* the arguments of a mergeCookies call
  merged         \* what that call returned

sessionVars == <<now, prefs, store, issued, pc, stack, op, calls,
                 session, res, trace, lg, evs>>
apiVars == <<att, clk>>
uiVars == <<lock, entries, logged, liveSchema, storedSchema, remembered, ui,
            started, inflight, overlap>>
schemaVars == <<page, fetch1, fetch2, variant>>
cacheVars == <<cache, sweep, timestamp, gc>>
parseVars == <<doc, today, parses, raw, processed>>
cookieVars == <<headers, merged>>
vars == <<sessionVars, apiVars, uiVars, schemaVars, cacheVars, parseVars, cookieVars>>

\* ------------------------------------------------------------ Session Store
NoSession == [sid |-> NONE, cookies |-> NONE, expiry |-> NONE]

NoResult == [ok |-> TRUE, val |-> NONE, err |-> "none"]
Ok(v) == [ok |-> TRUE, val |-> v, err |-> "none"]
Err(e) == [ok |-> FALSE, val |-> NONE, err |-> e]

NoLogin == [sid |-> NONE, cookies |-> NONE, redirectCount |-> 0, expiry |-> NONE,
            answer |-> "none"]
NoDecision == [stored |-> NoSession, readAt |-> NONE,
               session |-> NoSession, at |-> NONE, path |-> "none"]

\* A call: the callee's first label is entered, the caller resumes at ret.
Call(t, entry, ret) ==
  /\ pc' = [pc EXCEPT ![t] = entry]
  /\ stack' = [stack EXCEPT ![t] = <<ret>> \o @]

\* A return or a throw: the caller resumes at the label on top of the stack
\* and finds the outcome in res.
Return(t, r) ==
  /\ pc' = [pc EXCEPT ![t] = Head(stack[t])]
  /\ stack' = [stack EXCEPT ![t] = Tail(@)]
  /\ res' = [res EXCEPT ![t] = r]

Goto(t, label) ==
  /\ pc' = [pc EXCEPT ![t] = label]
  /\ UNCHANGED stack

\* fetch(): the request is put on the task's trace.
Sent(t, req) == trace' = [trace EXCEPT ![t] = Append(@, req)]

\* getStoredSession's validity test: !sid || !cookies || !expiryStr.
Incomplete(s) == s.sid = NONE \/ s.cookies = NONE \/ s.expiry = NONE

\* getStoredSession's expiry test: expiry < Date.now().
Expired(s, time) == s.expiry < time

\* getStoredSession: three getItem calls, then the test; an expired session
\* is cleared before null is returned.
getStoredSession(t) ==
  \/ /\ pc[t] = "gss_sid"
     /\ session' = [session EXCEPT ![t] = [NoSession EXCEPT !.sid = store.sid]]
     /\ Goto(t, "gss_cookies")
     /\ UNCHANGED <<now, prefs, store, issued, op, calls, res, trace, lg, evs, apiVars,
                    uiVars, schemaVars, cacheVars, parseVars, cookieVars>>
  \/ /\ pc[t] = "gss_cookies"
     /\ session' = [session EXCEPT ![t].cookies = store.cookies]
     /\ Goto(t, "gss_expiry")
     /\ UNCHANGED <<now, prefs, store, issued, op, calls, res, trace, lg, evs, apiVars,
                    uiVars, schemaVars, cacheVars, parseVars, cookieVars>>
  \/ /\ pc[t] = "gss_expiry"
     /\ LET s == [session[t] EXCEPT !.expiry = store.expiry] IN
        /\ IF Incomplete(s)
             THEN /\ session' = [session EXCEPT ![t] = NoSession]
                  /\ Return(t, NoResult)
             ELSE IF Expired(s, now)
               THEN /\ session' = [session EXCEPT ![t] = s]
                    /\ Call(t, "css_sid", "gss_cleared")
                    /\ UNCHANGED res
               ELSE /\ session' = [session EXCEPT ![t] = s]
                    /\ Return(t, NoResult)
        /\ evs' = IF Head(stack[t]) = "evs_got"
                    THEN [evs EXCEPT ![t] = [NoDecision EXCEPT !.stored = s, !.readAt = now]]
                    ELSE evs
     /\ UNCHANGED <<now, prefs, store, issued, op, calls, trace, lg, apiVars,
                    uiVars, schemaVars, cacheVars, parseVars, cookieVars>>
  \/ /\ pc[t] = "gss_cleared"
     /\ session' = [session EXCEPT ![t] = NoSession]
     /\ Return(t, NoResult)
     /\ UNCHANGED <<now, prefs, store, issued, op, calls, trace, lg, evs, apiVars,
                    uiVars, schemaVars, cacheVars, parseVars, cookieVars>>

\* clearStoredSession: three removeItem calls.
clearStoredSession(t) ==
  \/ /\ pc[t] = "css_sid"
     /\ store' = [store EXCEPT !.sid = NONE]
     /\ Goto(t, "css_cookies")
     /\ UNCHANGED <<now, prefs, issued, op, calls, session, res, trace, lg, evs, apiVars,
                    uiVars, schemaVars, cacheVars, parseVars, cookieVars>>
  \/ /\ pc[t] = "css_cookies"
     /\ store' = [store EXCEPT !.cookies = NONE]
     /\ Goto(t, "css_expiry")
     /\ UNCHANGED <<now, prefs, issued, op, calls, session, res, trace, lg, evs, apiVars,
                    uiVars, schemaVars, cacheVars, parseVars, cookieVars>>
  \/ /\ pc[t] = "css_expiry"
     /\ store' = [store EXCEPT !.expiry = NONE]
     /\ Return(t, NoResult)
     /\ UNCHANGED <<now, prefs, issued, op, calls, session, trace, lg, evs, apiVars,
                    uiVars, schemaVars, cacheVars, parseVars, cookieVars>>

\* A variant that takes the safety buffer off the lifetime.
Expiry_LessBuffer(time) == time + SESSION - BUFFER

\* Date.now() + CACHE_TTL.SESSION
Expiry(time) == time + SESSION

\* A variant that writes the session identifier as soon as the callback has
\* yielded it, while the redirects are still to be followed.
storeSession_BeforeRedirects(t) ==
  \/ /\ pc[t] = "login_redirect"
     /\ store.sid # lg[t].sid
     /\ store' = [store EXCEPT !.sid = lg[t].sid]
     /\ UNCHANGED <<now, prefs, issued, pc, stack, op, calls, session, res, trace, lg, evs,
                    apiVars, uiVars, schemaVars, cacheVars, parseVars, cookieVars>>
  \/ /\ pc[t] = "store_sid"
     /\ lg' = [lg EXCEPT ![t].expiry = Expiry(now)]
     /\ Goto(t, "store_cookies")
     /\ UNCHANGED <<now, prefs, store, issued, op, calls, session, res, trace, evs, apiVars,
                    uiVars, schemaVars, cacheVars, parseVars, cookieVars>>
  \/ /\ pc[t] = "store_cookies"
     /\ store' = [store EXCEPT !.cookies = lg[t].cookies]
     /\ Goto(t, "store_expiry")
     /\ UNCHANGED <<now, prefs, issued, op, calls, session, res, trace, lg, evs, apiVars,
                    uiVars, schemaVars, cacheVars, parseVars, cookieVars>>
  \/ /\ pc[t] = "store_expiry"
     /\ store' = [store EXCEPT !.expiry = lg[t].expiry]
     /\ Return(t, Ok(lg[t].sid))
     /\ UNCHANGED <<now, prefs, issued, op, calls, session, trace, lg, evs, apiVars,
                    uiVars, schemaVars, cacheVars, parseVars, cookieVars>>

\* storeSession: the expiry is computed on entry, then three setItem calls.
storeSession(t) ==
  \/ /\ pc[t] = "store_sid"
     /\ store' = [store EXCEPT !.sid = lg[t].sid]
     /\ lg' = [lg EXCEPT ![t].expiry = Expiry(now)]
     /\ Goto(t, "store_cookies")
     /\ UNCHANGED <<now, prefs, issued, op, calls, session, res, trace, evs, apiVars,
                    uiVars, schemaVars, cacheVars, parseVars, cookieVars>>
  \/ /\ pc[t] = "store_cookies"
     /\ store' = [store EXCEPT !.cookies = lg[t].cookies]
     /\ Goto(t, "store_expiry")
     /\ UNCHANGED <<now, prefs, issued, op, calls, session, res, trace, lg, evs, apiVars,
                    uiVars, schemaVars, cacheVars, parseVars, cookieVars>>
  \/ /\ pc[t] = "store_expiry"
     /\ store' = [store EXCEPT !.expiry = lg[t].expiry]
     /\ Return(t, Ok(lg[t].sid))
     /\ UNCHANGED <<now, prefs, issued, op, calls, session, trace, lg, evs, apiVars,
                    uiVars, schemaVars, cacheVars, parseVars, cookieVars>>

\* A variant that re-logs in whenever credentials are configured.
CanRelogin_IgnoresSwitch == prefs.email /\ prefs.password

\* preferences.autoReloginOnRefreshFailure && preferences.email && preferences.password
CanRelogin == prefs.auto /\ prefs.email /\ prefs.password

\* What the server may answer to each request of login.
PageAnswers == {"token", "no_token", "not_ok", "network"}
PostAnswers == {"200", "302", "401", "network"}
AuthorizeAnswers == {"code", "no_code", "no_location", "network"}
HopAnswers == {"200_employee", "200_login", "200_other", "redirect",
               "redirect_login", "redirect_no_location", "other", "network"}

\* A variant that goes on after any answer to the credentials POST.
LoginAccepted_AnyStatus(status) == status # "network"

\* The test of the credentials POST: status 302 or 200.
LoginAccepted(status) == status \in {"200", "302"}

\* A variant that accepts nothing but a 200 response as the end of the hops.
HopThrows_Unless200(a) ==
  a \in {"200_login", "redirect_login", "redirect_no_location", "other"}

\* The answers to a redirect hop on which login throws: a 200 response that
\* is a login page and not an employee page, or a redirect whose Location
\* names a login page.
HopThrows(a) == a \in {"200_login", "redirect_login"}

\* A variant that follows one hop more.
FollowsAgain_OneMore(redirectCount) == redirectCount <= maxRedirects

\* The condition of the redirect loop: redirectCount < maxRedirects.
FollowsAgain(redirectCount) == redirectCount < maxRedirects

\* login: sign-in page GET, credentials POST, authorize GET, callback GET,
\* up to maxRedirects redirect hops, storeSession.  lg.answer is the answer
\* to the request login sent last.
login(t) ==
  \/ /\ pc[t] = "login_page"
     /\ Sent(t, "GET sign_in")
     /\ \E a \in PageAnswers :
          /\ lg' = [lg EXCEPT ![t] = [NoLogin EXCEPT !.answer = a]]
          /\ IF a = "token" THEN Goto(t, "login_post") /\ UNCHANGED res
             ELSE Return(t, Err(CASE a = "not_ok" -> "LoginPageNotLoaded"
                                  [] a = "no_token" -> "NoCsrfToken"
                                  [] OTHER -> "NetworkError"))
     /\ UNCHANGED <<now, prefs, store, issued, op, calls, session, evs, apiVars,
                    uiVars, schemaVars, cacheVars, parseVars, cookieVars>>
  \/ /\ pc[t] = "login_post"
     /\ Sent(t, "POST sign_in")
     /\ \E a \in PostAnswers :
          /\ lg' = [lg EXCEPT ![t].answer = a]
          /\ IF a # "network" /\ LoginAccepted(a)
               THEN Goto(t, "login_authorize") /\ UNCHANGED res
               ELSE Return(t, Err(IF a = "network" THEN "NetworkError" ELSE "LoginFailed"))
     /\ UNCHANGED <<now, prefs, store, issued, op, calls, session, evs, apiVars,
                    uiVars, schemaVars, cacheVars, parseVars, cookieVars>>
  \/ /\ pc[t] = "login_authorize"
     /\ Sent(t, "GET authorize")
     /\ \E a \in AuthorizeAnswers :
          /\ lg' = [lg EXCEPT ![t].answer = a]
          /\ IF a = "code" THEN Goto(t, "login_callback") /\ UNCHANGED res
             ELSE Return(t, Err(CASE a = "no_location" -> "NoRedirectLocation"
                                  [] a = "no_code" -> "NoAuthorizationCode"
                                  [] OTHER -> "NetworkError"))
     /\ UNCHANGED <<now, prefs, store, issued, op, calls, session, evs, apiVars,
                    uiVars, schemaVars, cacheVars, parseVars, cookieVars>>
  \/ /\ pc[t] = "login_callback"
     /\ Sent(t, "GET callback")
     /\ \E a \in {"sid", "no_sid", "network"}, location \in BOOLEAN :
          IF a = "sid"
            THEN /\ issued < MaxIssued
                 /\ issued' = issued + 1
                 /\ lg' = [lg EXCEPT ![t].sid = issued + 1, ![t].cookies = issued + 1,
                                     ![t].redirectCount = 0, ![t].answer = a]
                 /\ Goto(t, IF location THEN "login_redirect" ELSE "store_sid")
                 /\ UNCHANGED res
            ELSE /\ Return(t, Err(IF a = "no_sid" THEN "NoSessionCookie" ELSE "NetworkError"))
                 /\ lg' = [lg EXCEPT ![t].answer = a]
                 /\ UNCHANGED issued
     /\ UNCHANGED <<now, prefs, store, op, calls, session, evs, apiVars,
                    uiVars, schemaVars, cacheVars, parseVars, cookieVars>>
  \/ /\ pc[t] = "login_redirect"
     /\ Sent(t, "GET redirect")
     /\ \E a \in HopAnswers, newSid \in BOOLEAN :
          /\ newSid => issued < MaxIssued /\ a # "network"
          /\ issued' = IF newSid THEN issued + 1 ELSE issued
          /\ LET received == [lg[t] EXCEPT !.answer = a]
                 hop == IF newSid
                          THEN [received EXCEPT !.sid = issued + 1, !.cookies = issued + 1]
                          ELSE received
             IN CASE HopThrows(a) ->
                       /\ lg' = [lg EXCEPT ![t] = hop]
                       /\ Return(t, Err("RedirectedToLogin"))
                  [] a = "network" ->
                       /\ lg' = [lg EXCEPT ![t] = hop]
                       /\ Return(t, Err("NetworkError"))
                  [] a = "redirect" ->
                       /\ lg' = [lg EXCEPT ![t] = [hop EXCEPT !.redirectCount = @ + 1]]
                       /\ Goto(t, IF FollowsAgain(hop.redirectCount + 1)
                                    THEN "login_redirect" ELSE "store_sid")
                       /\ UNCHANGED res
                  [] OTHER ->
                       /\ lg' = [lg EXCEPT ![t] = hop]
                       /\ Goto(t, "store_sid")
                       /\ UNCHANGED res
     /\ UNCHANGED <<now, prefs, store, op, calls, session, evs, apiVars,
                    uiVars, schemaVars, cacheVars, parseVars, cookieVars>>

\* A variant whose buffer includes the boundary.
ExpiresSoon_Inclusive(s, time) == s.expiry - time <= BUFFER

\* The 5-minute test of ensureValidSession: timeUntilExpiry < 5 * 60 * 1000.
ExpiresSoon(s, time) == s.expiry - time < BUFFER

Decided(e, s, time, path) == [e EXCEPT !.session = s, !.at = time, !.path = path]

\* ensureValidSession, after getStoredSession has returned; login's locals
\* are gone once login has returned.
ensureValidSession(t) ==
  \/ /\ pc[t] = "evs_got"
     /\ IF session[t] = NoSession
          THEN IF CanRelogin
                 THEN /\ Call(t, "login_page", "evs_login")
                      /\ evs' = [evs EXCEPT ![t] = Decided(evs[t], session[t], now, "login_missing")]
                      /\ UNCHANGED res
                 ELSE /\ Return(t, Err("LoggedOut"))
                      /\ evs' = [evs EXCEPT ![t] = Decided(evs[t], session[t], now, "missing")]
          ELSE IF ExpiresSoon(session[t], now)
                 THEN IF CanRelogin
                        THEN /\ Call(t, "login_page", "evs_login")
                             /\ evs' = [evs EXCEPT ![t] = Decided(evs[t], session[t], now, "login_expired")]
                             /\ UNCHANGED res
                        ELSE /\ Return(t, Err("SessionExpiredReloginDisabled"))
                             /\ evs' = [evs EXCEPT ![t] = Decided(evs[t], session[t], now, "expired")]
                 ELSE /\ Return(t, Ok(session[t].sid))
                      /\ evs' = [evs EXCEPT ![t] = Decided(evs[t], session[t], now, "valid")]
     /\ session' = [session EXCEPT ![t] = NoSession]
     /\ UNCHANGED <<now, prefs, store, issued, op, calls, trace, lg, apiVars,
                    uiVars, schemaVars, cacheVars, parseVars, cookieVars>>
  \/ /\ pc[t] = "evs_login"
     /\ IF res[t].ok
          THEN Return(t, Ok(res[t].val))
          ELSE Return(t, Err(IF evs[t].path = "login_missing"
                               THEN "AuthenticationFailed"
                               ELSE "SessionExpiredReloginFailed"))
     /\ lg' = [lg EXCEPT ![t] = NoLogin]
     /\ UNCHANGED <<now, prefs, store, issued, op, calls, session, trace, evs, apiVars,
                    uiVars, schemaVars, cacheVars, parseVars, cookieVars>>

\* A caller awaits ensureValidSession() and resumes at ret.
CallEnsureValidSession(t, ret) ==
  /\ pc' = [pc EXCEPT ![t] = "gss_sid"]
  /\ stack' = [stack EXCEPT ![t] = <<"evs_got", ret>> \o @]

\* getSessionCookies, after getStoredSession has returned.
getSessionCookies(t) ==
  /\ pc[t] = "gsc_got"
  /\ IF session[t] = NoSession
       THEN Return(t, Err("NoValidSession"))
       ELSE Return(t, Ok(session[t].cookies))
  /\ session' = [session EXCEPT ![t] = NoSession]
  /\ UNCHANGED <<now, prefs, store, issued, op, calls, trace, lg, evs, apiVars,
                 uiVars, schemaVars, cacheVars, parseVars, cookieVars>>

\* A caller awaits getDefaultHeaders(skipValidation) and resumes at ret.
CallGetDefaultHeaders(t, ret, skipValidation) ==
  /\ pc' = [pc EXCEPT ![t] = "gss_sid"]
  /\ stack' = [stack EXCEPT ![t] =
       (IF skipValidation THEN <<"gsc_got", ret>> ELSE <<"evs_got", "gdh_valid", ret>>) \o @]

\* getDefaultHeaders, after ensureValidSession has returned (its locals are
\* gone): an error goes on to the caller, otherwise getSessionCookies is
\* awaited.
getDefaultHeaders(t) ==
  /\ pc[t] = "gdh_valid"
  /\ IF res[t].ok
       THEN /\ pc' = [pc EXCEPT ![t] = "gss_sid"]
            /\ stack' = [stack EXCEPT ![t] = <<"gsc_got">> \o @]
            /\ UNCHANGED res
       ELSE Return(t, res[t])
  /\ evs' = [evs EXCEPT ![t] = NoDecision]
  /\ UNCHANGED <<now, prefs, store, issued, op, calls, session, trace, lg, apiVars,
                 uiVars, schemaVars, cacheVars, parseVars, cookieVars>>

\* ---------------------------------------------------- Authenticated Fetcher
\* A response to an authenticated page GET: its status, and whether its body
\* carries sign-in markers and authenticated-page markers.
Statuses == {200, 401, 403, 500}
Bodies == [signin : BOOLEAN, employee : BOOLEAN]
Responses == [status : Statuses, body : Bodies]
NoResponse == [status |-> 0, body |-> [signin |-> FALSE, employee |-> FALSE]]

\* response.ok
IsOk(r) == r.status = 200

\* isLoginPage of getAttendance: a sign-in marker and no employee-page marker.
isLoginPage(body) == body.signin /\ ~body.employee

\* getAttendance's test before it re-authenticates.
IsAuthFailure(r) == r.status = 401 \/ r.status = 403 \/ isLoginPage(r.body)

\* A variant that accepts a login page as the retried response.
RetryFails_StatusOnly(r) == ~IsOk(r)

\* getAttendance's tests of the retried response: !retryResponse.ok, then
\* isRetryLoginPage.
RetryFails(r) == ~IsOk(r) \/ isLoginPage(r.body)

NoAttendance == [headers |-> NONE, first |-> "none", purged |-> FALSE,
                 newSid |-> NONE, newHeaders |-> NONE, retry |-> "none",
                 retryResponse |-> NoResponse]

\* Every error of the re-authentication block is rethrown as this one.
Terminal == Err("AuthenticationFailedCheckCredentials")

\* getAttendance: headers, the GET, and on an authentication failure
\* clearStoredSession, ensureValidSession, headers again and one more GET.
getAttendance(t) ==
  \/ /\ pc[t] = "att_fetch"
     /\ IF ~res[t].ok
          THEN /\ Return(t, res[t])
               /\ UNCHANGED <<trace, att>>
          ELSE /\ Sent(t, "GET attendance")
               /\ \/ /\ Return(t, Err("NetworkError"))
                     /\ att' = [att EXCEPT ![t].headers = res[t].val, ![t].first = "threw"]
                  \/ \E r \in Responses :
                       IF IsAuthFailure(r)
                         THEN /\ Call(t, "css_sid", "att_cleared")
                              /\ att' = [att EXCEPT ![t].headers = res[t].val,
                                                    ![t].first = "authfail"]
                              /\ UNCHANGED res
                         ELSE IF ~IsOk(r)
                           THEN /\ Return(t, Err("ApiRequestFailed"))
                                /\ att' = [att EXCEPT ![t].headers = res[t].val,
                                                      ![t].first = "failed"]
                           ELSE /\ Return(t, Ok(0))
                                /\ att' = [att EXCEPT ![t].headers = res[t].val,
                                                      ![t].first = "passed"]
     /\ UNCHANGED <<now, prefs, store, issued, op, calls, session, lg, evs, clk,
                    uiVars, schemaVars, cacheVars, parseVars, cookieVars>>
  \/ /\ pc[t] = "att_cleared"
     /\ att' = [att EXCEPT ![t].purged = TRUE]
     /\ CallEnsureValidSession(t, "att_relogin")
     /\ UNCHANGED <<now, prefs, store, issued, op, calls, session, res, trace, lg, evs, clk,
                    uiVars, schemaVars, cacheVars, parseVars, cookieVars>>
  \/ /\ pc[t] = "att_relogin"
     /\ IF res[t].ok
          THEN /\ att' = [att EXCEPT ![t].newSid = res[t].val]
               /\ CallGetDefaultHeaders(t, "att_retry", FALSE)
               /\ UNCHANGED res
          ELSE /\ Return(t, Terminal)
               /\ UNCHANGED att
     /\ evs' = [evs EXCEPT ![t] = NoDecision]
     /\ UNCHANGED <<now, prefs, store, issued, op, calls, session, trace, lg, clk,
                    uiVars, schemaVars, cacheVars, parseVars, cookieVars>>
  \/ /\ pc[t] = "att_retry"
     /\ IF ~res[t].ok
          THEN /\ Return(t, Terminal)
               /\ UNCHANGED <<trace, att>>
          ELSE /\ Sent(t, "GET attendance")
               /\ \/ /\ Return(t, Terminal)
                     /\ att' = [att EXCEPT ![t].newHeaders = res[t].val, ![t].retry = "threw"]
                  \/ \E r \in Responses :
                       /\ att' = [att EXCEPT ![t].newHeaders = res[t].val,
                                             ![t].retry = "answered",
                                             ![t].retryResponse = r]
                       /\ IF RetryFails(r)
                            THEN Return(t, Terminal)
                            ELSE Return(t, Ok(0))
     /\ UNCHANGED <<now, prefs, store, issued, op, calls, session, lg, evs, clk,
                    uiVars, schemaVars, cacheVars, parseVars, cookieVars>>

\* ------------------------------------------------------------ Clock Executor
\* Strings the executor takes apart are sequences of characters.
Upper == [A |-> "a", B |-> "b", C |-> "c", I |-> "i", O |-> "o", T |-> "t"]
Lower(c) == IF c \in DOMAIN Upper THEN Upper[c] ELSE c
toLowerCase(str) == [i \in 1..Len(str) |-> Lower(str[i])]
includes(str, sub) ==
  \E i \in 1..(Len(str) - Len(sub) + 1) : SubSeq(str, i, i + Len(sub) - 1) = sub
\* /^\d+$/
IsNumeric(str) == str # <<>> /\ \A i \in 1..Len(str) : str[i] \in {"1", "2", "7"}

\* The options of the page's group_id select that have an id and a name.
Spot1 == [id |-> <<"1">>, name |-> <<"A", "b">>]
Spot2 == [id |-> <<"2">>, name |-> <<"b">>]
SpotLists == {<<>>, <<Spot1>>, <<Spot1, Spot2>>, <<Spot2, Spot1>>}

\* What the modify page may hold for a hidden input: no such input, an
\* input with an empty value, an input with a value.
Inputs == {"absent", "empty", "set"}
\* A response to the modify page GET: its status, whether its body contains
\* "sign_in" or the word for login, whether it carries an authenticated-page
\* marker, and its form.
ModifyResponses == [status : Statuses, signinWord : BOOLEAN, employee : BOOLEAN, token : Inputs,
                    clientId : Inputs, employeeId : Inputs, spots : SpotLists]
\* The status and the markers of a modify page response.
Answer(r) == [status |-> r.status, body |-> [signin |-> r.signinWord, employee |-> r.employee]]
NoModifyData == [token |-> "", clientId |-> "", employeeId |-> "", availableSpots |-> <<>>]

\* getAttribute("value") || ""
ValueOf(input) == IF input = "set" THEN "value" ELSE ""

\* The arguments of clockInOut: the notice and group_id of the field map.
\* clockInOut reads them first after validation, and the model draws them there.
Notes == {"", "note"}
SpotInputs == {<<>>, <<"7">>, <<"a", "B">>, <<"b">>, <<"c">>}
NoPage == [token |-> "absent", clientId |-> "absent", employeeId |-> "absent",
           spots |-> <<>>, fetched |-> FALSE]
NoClock == [response |-> NoResponse, page |-> NoPage, md |-> NoModifyData, notes |-> "",
            spot |-> <<>>, groupId |-> <<>>, missing |-> <<>>,
            clockIn |-> "none", clockOut |-> "none"]

\* getModifyPageData, after getDefaultHeaders has returned: the GET and the
\* extraction of token, client_id, employee_id and the spots.
getModifyPageData(t) ==
  /\ pc[t] = "mod_fetch"
  /\ IF ~res[t].ok
       THEN /\ Return(t, res[t])
            /\ UNCHANGED <<trace, clk>>
       ELSE /\ Sent(t, "GET modify")
            /\ \/ /\ Return(t, Err("NetworkError"))
                  /\ UNCHANGED clk
               \/ \E r \in ModifyResponses :
                    LET snapshot == [token |-> r.token, clientId |-> r.clientId,
                                     employeeId |-> r.employeeId, spots |-> r.spots,
                                     fetched |-> TRUE]
                    IN
                    CASE ~IsOk(r) ->
                           /\ Return(t, Err("ModifyPageFetchFailed"))
                           /\ clk' = [clk EXCEPT ![t].response = Answer(r)]
                      [] IsOk(r) /\ r.signinWord ->
                           /\ Return(t, Err("SessionExpiredTryAgain"))
                           /\ clk' = [clk EXCEPT ![t].response = Answer(r)]
                      [] IsOk(r) /\ ~r.signinWord /\ r.token = "absent" ->
                           /\ Return(t, Err("NoTokenInput"))
                           /\ clk' = [clk EXCEPT ![t].response = Answer(r), ![t].page = snapshot]
                      [] IsOk(r) /\ ~r.signinWord /\ r.token # "absent" /\ r.clientId = "absent" ->
                           /\ Return(t, Err("NoClientIdInput"))
                           /\ clk' = [clk EXCEPT ![t].response = Answer(r), ![t].page = snapshot]
                      [] IsOk(r) /\ ~r.signinWord /\ r.token # "absent" /\ r.clientId # "absent"
                           /\ r.employeeId = "absent" ->
                           /\ Return(t, Err("NoEmployeeIdInput"))
                           /\ clk' = [clk EXCEPT ![t].response = Answer(r), ![t].page = snapshot]
                      [] OTHER ->
                           /\ clk' = [clk EXCEPT ![t].response = Answer(r),
                                ![t].page = snapshot, ![t].md =
                                [token |-> ValueOf(r.token), clientId |-> ValueOf(r.clientId),
                                 employeeId |-> ValueOf(r.employeeId),
                                 availableSpots |-> r.spots]]
                           /\ Return(t, Ok(0))
  /\ UNCHANGED <<now, prefs, store, issued, op, calls, session, lg, evs, att,
                 uiVars, schemaVars, cacheVars, parseVars, cookieVars>>

\* A variant that does not look at the token.
validateClockingSupport_NoToken(modifyPageData) ==
  LET missingFields ==
        (IF modifyPageData.clientId = "" THEN <<"client_id">> ELSE <<>>)
        \o (IF modifyPageData.employeeId = "" THEN <<"employee_id">> ELSE <<>>)
        \o (IF Len(modifyPageData.availableSpots) = 0 THEN <<"group_id">> ELSE <<>>)
  IN [supported |-> Len(missingFields) = 0, missingFields |-> missingFields]

\* validateClockingSupport
validateClockingSupport(modifyPageData) ==
  LET missingFields ==
        (IF modifyPageData.token = "" THEN <<"token">> ELSE <<>>)
        \o (IF modifyPageData.clientId = "" THEN <<"client_id">> ELSE <<>>)
        \o (IF modifyPageData.employeeId = "" THEN <<"employee_id">> ELSE <<>>)
        \o (IF Len(modifyPageData.availableSpots) = 0 THEN <<"group_id">> ELSE <<>>)
  IN [supported |-> Len(missingFields) = 0, missingFields |-> missingFields]

\* A variant that looks for the value inside the spot names only.
FindSpot_NameContainsValue(value, availableSpots) ==
  LET hits == {i \in 1..Len(availableSpots) :
                 includes(toLowerCase(availableSpots[i].name), toLowerCase(value))}
  IN IF hits = {} THEN 0 ELSE CHOOSE i \in hits : \A j \in hits : i <= j

\* availableSpots.find(...): the first spot whose name contains the value or
\* is contained in it, lower-cased; 0 when there is none.
FindSpot(value, availableSpots) ==
  LET hits == {i \in 1..Len(availableSpots) :
                 \/ includes(toLowerCase(availableSpots[i].name), toLowerCase(value))
                 \/ includes(toLowerCase(value), toLowerCase(availableSpots[i].name))}
  IN IF hits = {} THEN 0 ELSE CHOOSE i \in hits : \A j \in hits : i <= j

\* Step 3 of clockInOut: the group_id that is submitted.
ResolveSpot(value, availableSpots) ==
  IF value # <<>> /\ ~IsNumeric(value)
    THEN IF FindSpot(value, availableSpots) # 0
           THEN availableSpots[FindSpot(value, availableSpots)].id
           ELSE availableSpots[1].id
    ELSE IF value = <<>> THEN availableSpots[1].id ELSE value

\* What the server may answer to an insert POST.
InsertAnswers == {"network", "not_ok", "not_json", "result_0", "result_1"}

\* A variant that tests neither the status nor the result of the answer.
InsertSucceeded_Unchecked(a) == a # "network"

\* A variant that takes every JSON answer for a success.
InsertSucceeded_AnyResult(a) == a \in {"result_0", "result_1"}

\* The test of an insert POST's answer: response.ok and result === 1.
InsertSucceeded(a) == a = "result_1"

\* The error of a failed insert POST; step is "In" or "Out".
InsertError(a, step) ==
  CASE a = "network" -> Err("NetworkError")
    [] a = "not_json" -> Err("SyntaxError")
    [] OTHER -> Err("Clock" \o step \o "Failed")

\* clockInOut, after getModifyPageData has returned: validation, the spot,
\* the notes test, headers without validation, the two insert POSTs.
clockInOut(t) ==
  \/ /\ pc[t] = "clk_validate"
     /\ IF ~res[t].ok
          THEN /\ Return(t, res[t])
               /\ UNCHANGED clk
          ELSE LET validation == validateClockingSupport(clk[t].md) IN
               IF ~validation.supported
                 THEN /\ clk' = [clk EXCEPT ![t].missing = validation.missingFields]
                      /\ Return(t, Err("ClockingNotSupported"))
                 ELSE \E notes \in Notes, spot \in SpotInputs :
                        /\ clk' = [clk EXCEPT ![t].notes = notes, ![t].spot = spot,
                                     ![t].groupId = ResolveSpot(spot, clk[t].md.availableSpots)]
                        /\ IF notes = ""
                             THEN Return(t, Err("NotesRequired"))
                             ELSE CallGetDefaultHeaders(t, "clk_in", TRUE) /\ UNCHANGED res
     /\ UNCHANGED <<now, prefs, store, issued, op, calls, session, trace, lg, evs, att,
                    uiVars, schemaVars, cacheVars, parseVars, cookieVars>>
  \/ /\ pc[t] = "clk_in"
     /\ IF ~res[t].ok
          THEN /\ Return(t, res[t])
               /\ UNCHANGED trace
               /\ UNCHANGED clk
          ELSE /\ Sent(t, "POST insert in")
               /\ \E a \in InsertAnswers :
                    /\ clk' = [clk EXCEPT ![t].clockIn = a]
                    /\ IF InsertSucceeded(a)
                         THEN Goto(t, "clk_out") /\ UNCHANGED res
                         ELSE Return(t, InsertError(a, "In"))
     /\ UNCHANGED <<now, prefs, store, issued, op, calls, session, lg, evs, att,
                    uiVars, schemaVars, cacheVars, parseVars, cookieVars>>
  \/ /\ pc[t] = "clk_out"
     /\ Sent(t, "POST insert out")
     /\ \E a \in InsertAnswers :
          /\ clk' = [clk EXCEPT ![t].clockOut = a]
          /\ IF InsertSucceeded(a)
               THEN Return(t, Ok(0))
               ELSE Return(t, InsertError(a, "Out"))
     /\ UNCHANGED <<now, prefs, store, issued, op, calls, session, lg, evs, att,
                    uiVars, schemaVars, cacheVars, parseVars, cookieVars>>

\* A top-level call: the task is free, and its trace starts empty.
Begin(t, name) ==
  /\ pc[t] \in {"idle", "done"}
  /\ calls[t] < MaxCalls
  /\ calls' = [calls EXCEPT ![t] = @ + 1]
  /\ op' = [op EXCEPT ![t] = name]
  /\ trace' = [trace EXCEPT ![t] = <<>>]
  /\ res' = [res EXCEPT ![t] = NoResult]
  /\ evs' = [evs EXCEPT ![t] = NoDecision]
  /\ att' = [att EXCEPT ![t] = NoAttendance]
  /\ session' = [session EXCEPT ![t] = NoSession]
  /\ lg' = [lg EXCEPT ![t] = NoLogin]
  /\ clk' = [clk EXCEPT ![t] = NoClock]

\* The component awaits ensureValidSession() (search-attendance.tsx).
StartEnsureValidSession(t) ==
  /\ Begin(t, "ensureValidSession")
  /\ pc' = [pc EXCEPT ![t] = "gss_sid"]
  /\ stack' = [stack EXCEPT ![t] = <<"evs_got", "done">>]
  /\ UNCHANGED <<now, prefs, store, issued,
                 uiVars, schemaVars, cacheVars, parseVars, cookieVars>>

\* The component awaits getAttendance(year, month).
StartGetAttendance(t) ==
  /\ Begin(t, "getAttendance")
  /\ pc' = [pc EXCEPT ![t] = "gss_sid"]
  /\ stack' = [stack EXCEPT ![t] = <<"evs_got", "gdh_valid", "att_fetch", "done">>]
  /\ UNCHANGED <<now, prefs, store, issued,
                 uiVars, schemaVars, cacheVars, parseVars, cookieVars>>

\* A handler awaits clockInOut(date, fieldMap).
StartClockInOut(t) ==
  /\ Begin(t, "clockInOut")
  /\ pc' = [pc EXCEPT ![t] = "gss_sid"]
  /\ stack' = [stack EXCEPT ![t] =
       <<"evs_got", "gdh_valid", "mod_fetch", "clk_validate", "done">>]
  /\ UNCHANGED <<now, prefs, store, issued,
                 uiVars, schemaVars, cacheVars, parseVars, cookieVars>>

\* The labels whose step reads Date.now().
ReadsClock == {"gss_expiry", "evs_got", "store_sid", "gc_age", "sc_stamp"}

\* Time passes.  Only the steps at ReadsClock see the clock, so time is let
\* pass right before one of them.
Tick ==
  /\ \E t \in Tasks : pc[t] \in ReadsClock
  /\ \E later \in Instants : later > now /\ now' = later
  /\ UNCHANGED <<prefs, store, issued, pc, stack, op, calls, session, res, trace, lg, evs, apiVars,
                 uiVars, schemaVars, cacheVars, parseVars, cookieVars>>

\* The installation starts logged out or with a session an earlier run stored.
SessionInit ==
  /\ now = 0
  /\ prefs \in {p \in [auto : BOOLEAN, email : BOOLEAN, password : BOOLEAN] :
                  Cardinality({f \in {"auto", "email", "password"} : ~p[f]}) <= 1}
  /\ \/ store = NoSession
     \/ store = [sid |-> 0, cookies |-> 0, expiry |-> SESSION]
  /\ issued = 0
  /\ pc = [t \in Tasks |-> "idle"]
  /\ stack = [t \in Tasks |-> <<>>]
  /\ op = [t \in Tasks |-> "none"]
  /\ calls = [t \in Tasks |-> 0]
  /\ session = [t \in Tasks |-> NoSession]
  /\ res = [t \in Tasks |-> NoResult]
  /\ trace = [t \in Tasks |-> <<>>]
  /\ lg = [t \in Tasks |-> NoLogin]
  /\ evs = [t \in Tasks |-> NoDecision]

ApiInit ==
  /\ att = [t \in Tasks |-> NoAttendance]
  /\ clk = [t \in Tasks |-> NoClock]

SessionStep(t) ==
  \/ getStoredSession(t)
  \/ clearStoredSession(t)
  \/ storeSession(t)
  \/ login(t)
  \/ ensureValidSession(t)
  \/ getSessionCookies(t)
  \/ getDefaultHeaders(t)

\* ------------------------------------------------------- Search Attendance
\* The handlers of the attendance list.  A clockInOut call is modelled above;
\* here it is its start and its settlement.
Dates == 1..MaxDates
\* Two fingerprints, and the absent one (getStoredFieldSchema's null; the
\* empty string is as falsy).
SchemaA == <<"A">>
SchemaB == <<"B">>
NoSchema == <<>>
NoHandler == [list |-> <<>>, idx |-> 0, failed |-> {}, values |-> "", date |-> 0,
              fields |-> NoSchema, successCount |-> 0, failureCount |-> 0]

\* What the handlers leave alone.
idleVars == <<now, prefs, store, issued, stack, session, res, trace, lg, evs, att, clk,
               schemaVars, cacheVars, parseVars, cookieVars>>

\* The elements of a set of dates in the order of the list.
RECURSIVE SeqOf(_)
SeqOf(S) ==
  IF S = {} THEN <<>>
  ELSE LET first == CHOOSE x \in S : \A y \in S : x <= y
       IN <<first>> \o SeqOf(S \ {first})

\* A variant that reports a change only when nothing is stored.
hasFieldSchemaChanged_OnlyUnstored(currentSchema, stored) == stored = NoSchema

\* hasFieldSchemaChanged, on the fingerprint of the detected fields.
hasFieldSchemaChanged(currentSchema, stored) ==
  IF stored = NoSchema THEN TRUE ELSE currentSchema # stored

\* One clockInOut call: who started it, for which date, from where, and the
\* fingerprints at that moment.
Run(t, date, kind) ==
  [by |-> <<t, calls[t]>>, date |-> date, kind |-> kind,
   live |-> liveSchema, stored |-> storedSchema]
Flight(t, date, kind) == [by |-> <<t, calls[t]>>, date |-> date, kind |-> kind]

\* A handler starts: the task is free.
Trigger(t, name) ==
  /\ pc[t] \in {"idle", "done"}
  /\ calls[t] < MaxCalls
  /\ calls' = [calls EXCEPT ![t] = @ + 1]
  /\ op' = [op EXCEPT ![t] = name]

\* The index of the next entry of the list, from index from on, whose date
\* is not locked; past the end of the list when there is none.
NextUnlocked(list, from, locks) ==
  LET free == {k \in from..Len(list) : list[k] \notin locks}
  IN IF free = {} THEN Len(list) + 1 ELSE CHOOSE k \in free : \A j \in free : k <= j

\* A variant that leaves the date in the set.
Release_Keeps(locks, date) == locks

\* finally: clockingLockRef.current.delete(entry.date)
Release(locks, date) == locks \ {date}

\* The loop of handleLogAll from index from on, up to its next await: locked
\* dates are counted as failures, the first free date is locked and its
\* clockInOut is started; after the last entry the refetch follows.  h holds
\* the handler's locals, locks and flights the lock set and the calls in
\* flight as the loop finds them.
Iterate(t, h, from, locks, flights) ==
  LET list == h.list
      k == NextUnlocked(list, from, locks)
      skipped == {list[j] : j \in from..(k - 1)}
  IN /\ ui' = [ui EXCEPT ![t] = [h EXCEPT !.idx = k, !.failed = @ \cup skipped,
                                            !.failureCount = @ + Cardinality(skipped)]]
     /\ IF k > Len(list)
          THEN /\ lock' = locks
               /\ pc' = [pc EXCEPT ![t] = "la_refetch"]
               /\ inflight' = flights
               /\ UNCHANGED started
          ELSE /\ lock' = locks \cup {list[k]}
               /\ pc' = [pc EXCEPT ![t] = "la_clock"]
               /\ started' = started \cup {Run(t, list[k], "bulk")}
               /\ inflight' = flights \cup {Flight(t, list[k], "bulk")}

\* A variant that counts the successes only.
Counted_SuccessesOnly(h, date, ok) ==
  IF ok THEN [h EXCEPT !.successCount = @ + 1] ELSE h

\* The end of one date's try: successCount++ after clockInOut has returned,
\* failureCount++ and failedDates.push in the catch.
Counted(h, date, ok) ==
  IF ok THEN [h EXCEPT !.successCount = @ + 1]
  ELSE [h EXCEPT !.failureCount = @ + 1, !.failed = @ \cup {date}]

\* The bulk invocations that are running.
RunningBulk == {u \in Tasks : op[u] = "logAll" /\ pc[u] \notin {"idle", "done"}}

\* "Clock in & out All" is chosen: the absences that are not locked are
\* listed, and a toast is awaited.
StartLogAll(t) ==
  /\ Trigger(t, "logAll")
  /\ entries # {}
  /\ LET absenceEntries == SeqOf(entries \ lock) IN
     /\ ui' = [ui EXCEPT ![t] = [NoHandler EXCEPT !.list = absenceEntries]]
     /\ pc' = [pc EXCEPT ![t] = IF Len(absenceEntries) = 0 THEN "la_none" ELSE "la_toast"]
  /\ overlap' = overlap \cup {{<<t, calls[t] + 1>>, <<u, calls[u]>>} : u \in RunningBulk}
  /\ UNCHANGED <<lock, entries, logged, liveSchema, storedSchema, remembered, started, inflight>>
  /\ UNCHANGED idleVars

handleLogAll(t) ==
  \/ /\ pc[t] \in {"la_none", "la_form_required"}
     /\ pc' = [pc EXCEPT ![t] = "done"]
     /\ UNCHANGED <<op, calls, idleVars, uiVars>>
  \/ /\ pc[t] = "la_toast"
     /\ pc' = [pc EXCEPT ![t] = "la_values"]
     /\ UNCHANGED <<op, calls, idleVars, uiVars>>
  \/ /\ pc[t] = "la_values"
     /\ IF remembered = ""
          THEN /\ pc' = [pc EXCEPT ![t] = "la_form_required"]
               /\ ui' = [ui EXCEPT ![t].values = remembered]
               /\ UNCHANGED <<lock, started, inflight>>
          ELSE Iterate(t, [ui[t] EXCEPT !.values = remembered], 1, lock, inflight)
     /\ UNCHANGED <<op, calls, idleVars, entries, logged, liveSchema, storedSchema,
                    remembered, overlap>>
  \/ /\ pc[t] = "la_clock"
     /\ LET date == ui[t].list[ui[t].idx] IN
        \E ok \in BOOLEAN :
          /\ logged' = IF ok THEN logged \cup {date} ELSE logged
          /\ Iterate(t, Counted(ui[t], date, ok),
                     ui[t].idx + 1, Release(lock, date),
                     inflight \ {Flight(t, date, "bulk")})
     /\ UNCHANGED <<op, calls, idleVars, entries, liveSchema, storedSchema, remembered, overlap>>
  \/ /\ pc[t] = "la_refetch"
     /\ \E fetched \in BOOLEAN : entries' = IF fetched THEN Dates \ logged ELSE entries
     /\ pc' = [pc EXCEPT ![t] = "done"]
     /\ UNCHANGED <<op, calls, idleVars, lock, logged, liveSchema, storedSchema, remembered,
                    ui, started, inflight, overlap>>

\* "Clock in & out" is chosen on an absence: getModifyPageData is awaited.
StartClockInOutDay(t) ==
  /\ Trigger(t, "clockDay")
  /\ \E date \in entries : ui' = [ui EXCEPT ![t] = [NoHandler EXCEPT !.date = date]]
  /\ pc' = [pc EXCEPT ![t] = "day_modify"]
  /\ UNCHANGED <<lock, entries, logged, liveSchema, storedSchema, remembered, started,
                 inflight, overlap>>
  /\ UNCHANGED idleVars

\* handleClockInOut: the page, the remembered values, the stored fingerprint;
\* with an unchanged fingerprint and a value for every required field the
\* remembered values are submitted, otherwise the form is pushed.  A failed
\* submission or refetch pushes the form as well.
handleClockInOut(t) ==
  \/ /\ pc[t] = "day_modify"
     /\ \/ /\ ui' = [ui EXCEPT ![t].fields = liveSchema]
           /\ pc' = [pc EXCEPT ![t] = "day_values"]
        \/ /\ pc' = [pc EXCEPT ![t] = "done"]
           /\ UNCHANGED ui
     /\ UNCHANGED <<op, calls, idleVars, lock, entries, logged, liveSchema, storedSchema,
                    remembered, started, inflight, overlap>>
  \/ /\ pc[t] = "day_values"
     /\ ui' = [ui EXCEPT ![t].values = remembered]
     /\ pc' = [pc EXCEPT ![t] = "day_schema"]
     /\ UNCHANGED <<op, calls, idleVars, lock, entries, logged, liveSchema, storedSchema,
                    remembered, started, inflight, overlap>>
  \/ /\ pc[t] = "day_schema"
     /\ LET schemaChanged == hasFieldSchemaChanged(ui[t].fields, storedSchema)
            allRequiredFieldsHaveValues == ui[t].values # ""
        IN IF ~schemaChanged /\ allRequiredFieldsHaveValues
             THEN /\ pc' = [pc EXCEPT ![t] = "day_clock"]
                  /\ started' = started \cup {Run(t, ui[t].date, "remembered")}
                  /\ inflight' = inflight \cup {Flight(t, ui[t].date, "remembered")}
             ELSE /\ pc' = [pc EXCEPT ![t] = "form"]
                  /\ UNCHANGED <<started, inflight>>
     /\ UNCHANGED <<op, calls, idleVars, lock, entries, logged, liveSchema, storedSchema,
                    remembered, ui, overlap>>
  \/ /\ pc[t] = "day_clock"
     /\ inflight' = inflight \ {Flight(t, ui[t].date, "remembered")}
     /\ \E ok \in BOOLEAN :
          /\ logged' = IF ok THEN logged \cup {ui[t].date} ELSE logged
          /\ pc' = [pc EXCEPT ![t] = IF ok THEN "day_success" ELSE "form"]
     /\ UNCHANGED <<op, calls, idleVars, lock, entries, liveSchema, storedSchema,
                    remembered, ui, started, overlap>>
  \/ /\ pc[t] = "day_success"
     /\ \E fetched \in BOOLEAN :
          /\ entries' = IF fetched THEN Dates \ logged ELSE entries
          /\ pc' = [pc EXCEPT ![t] = IF fetched THEN "done" ELSE "form"]
     /\ UNCHANGED <<op, calls, idleVars, lock, logged, liveSchema, storedSchema,
                    remembered, ui, started, inflight, overlap>>

\* A variant that starts clockInOut first and persists the remember decision
\* and the fingerprint only once the submission has succeeded.
handleSubmit_PersistsOnSuccess(t) ==
  \/ /\ pc[t] = "form"
     /\ \/ /\ pc' = [pc EXCEPT ![t] = "done"]
           /\ UNCHANGED <<ui, started, inflight>>
        \/ \E notice \in Notes :
             /\ ui' = [ui EXCEPT ![t].values = notice]
             /\ started' = started \cup {Run(t, ui[t].date, "form")}
             /\ inflight' = inflight \cup {Flight(t, ui[t].date, "form")}
             /\ pc' = [pc EXCEPT ![t] = "form_clock"]
     /\ UNCHANGED <<op, calls, idleVars, lock, entries, logged, liveSchema, storedSchema,
                    remembered, overlap>>
  \/ /\ pc[t] = "form_clock"
     /\ inflight' = inflight \ {Flight(t, ui[t].date, "form")}
     /\ \E ok \in BOOLEAN, shouldRemember \in BOOLEAN :
          /\ ok => ui[t].values # ""
          /\ logged' = IF ok THEN logged \cup {ui[t].date} ELSE logged
          /\ storedSchema' = IF ok THEN ui[t].fields ELSE storedSchema
          /\ remembered' = IF ~ok THEN remembered
                           ELSE IF shouldRemember THEN ui[t].values ELSE ""
          /\ pc' = [pc EXCEPT ![t] = IF ok THEN "form_success" ELSE "form"]
     /\ UNCHANGED <<op, calls, idleVars, lock, entries, liveSchema, ui, started, overlap>>
  \/ /\ pc[t] = "form_success"
     /\ \E fetched \in BOOLEAN : entries' = IF fetched THEN Dates \ logged ELSE entries
     /\ pc' = [pc EXCEPT ![t] = "done"]
     /\ UNCHANGED <<op, calls, idleVars, lock, logged, liveSchema, storedSchema,
                    remembered, ui, started, inflight, overlap>>

\* ClockFormWrapper: the user leaves the form, or submits a notice with its
\* remember flag; handleSubmit stores or clears the value, stores the
\* fingerprint of the fields the form was built from, and submits.
handleSubmit(t) ==
  \/ /\ pc[t] = "form"
     /\ \/ /\ pc' = [pc EXCEPT ![t] = "done"]
           /\ UNCHANGED <<ui, remembered>>
        \/ \E notice \in Notes, shouldRemember \in BOOLEAN :
             /\ ui' = [ui EXCEPT ![t].values = notice]
             /\ remembered' = IF shouldRemember THEN notice ELSE ""
             /\ pc' = [pc EXCEPT ![t] = "form_schema"]
     /\ UNCHANGED <<op, calls, idleVars, lock, entries, logged, liveSchema, storedSchema,
                    started, inflight, overlap>>
  \/ /\ pc[t] = "form_schema"
     /\ storedSchema' = ui[t].fields
     /\ pc' = [pc EXCEPT ![t] = "form_clock"]
     /\ started' = started \cup {[Run(t, ui[t].date, "form") EXCEPT !.stored = ui[t].fields]}
     /\ inflight' = inflight \cup {Flight(t, ui[t].date, "form")}
     /\ UNCHANGED <<op, calls, idleVars, lock, entries, logged, liveSchema, remembered,
                    ui, overlap>>
  \/ /\ pc[t] = "form_clock"
     /\ inflight' = inflight \ {Flight(t, ui[t].date, "form")}
     /\ \E ok \in BOOLEAN :
          /\ ok => ui[t].values # ""
          /\ logged' = IF ok THEN logged \cup {ui[t].date} ELSE logged
          /\ pc' = [pc EXCEPT ![t] = IF ok THEN "form_success" ELSE "form"]
     /\ UNCHANGED <<op, calls, idleVars, lock, entries, liveSchema, storedSchema,
                    remembered, ui, started, overlap>>
  \/ /\ pc[t] = "form_success"
     /\ \E fetched \in BOOLEAN : entries' = IF fetched THEN Dates \ logged ELSE entries
     /\ pc' = [pc EXCEPT ![t] = "done"]
     /\ UNCHANGED <<op, calls, idleVars, lock, logged, liveSchema, storedSchema,
                    remembered, ui, started, inflight, overlap>>

\* The server's form changes.
FormChanges ==
  /\ liveSchema = SchemaA
  /\ liveSchema' = SchemaB
  /\ UNCHANGED <<sessionVars, apiVars, schemaVars, cacheVars, parseVars, cookieVars, lock, entries,
                 logged, storedSchema, remembered, ui, started, inflight, overlap>>

\* The list shows every day as an absence, nothing is locked or in flight.
UiIdle ==
  /\ lock = {}
  /\ entries = Dates
  /\ logged = {}
  /\ liveSchema = SchemaA
  /\ ui = [t \in Tasks |-> NoHandler]
  /\ started = {}
  /\ inflight = {}
  /\ overlap = {}

\* A fresh installation: no fingerprint, no remembered value.
UiFresh == UiIdle /\ storedSchema = NoSchema /\ remembered = ""

\* A fresh installation, or one where a form has been submitted before.
UiInit ==
  /\ UiIdle
  /\ \/ storedSchema = NoSchema /\ remembered = ""
     \/ storedSchema = SchemaA /\ remembered \in Notes

\* ---------------------------------------------------- Form Field Discovery
\* Names, labels and fingerprints are strings: sequences of characters.
N_group_id == <<"g", "r", "o", "u", "p", "_", "i", "d">>
N_location_id == <<"l", "o", "c", "a", "t", "i", "o", "n", "_", "i", "d">>
N_notice == <<"n", "o", "t", "i", "c", "e">>
N_time_in == <<"t", "i", "m", "e", "_", "i", "n">>
N_check_in == <<"c", "h", "e", "c", "k", "_", "i", "n">>
N_memo == <<"m", "e", "m", "o">>
N_token == <<"t", "o", "k", "e", "n">>
N_clockInTime == <<"c", "l", "o", "c", "k", "I", "n", "T", "i", "m", "e">>
N_clockOutTime == <<"c", "l", "o", "c", "k", "O", "u", "t", "T", "i", "m", "e">>
L_ClockTime == <<"C", "l", "o", "c", "k", " ", "t", "i", "m", "e">>
W_time == <<"t", "i", "m", "e">>
W_clock == <<"c", "l", "o", "c", "k">>
W_in == <<"i", "n">>
W_out == <<"o", "u", "t">>
W_select == <<"s", "e", "l", "e", "c", "t">>
W_text == <<"t", "e", "x", "t">>
W_required == <<"r", "e", "q", "u", "i", "r", "e", "d">>
W_optional == <<"o", "p", "t", "i", "o", "n", "a", "l">>
W_options == <<"o", "p", "t", "i", "o", "n", "s">>

\* The place of each letter in the collation order, case aside.
Ord == [c \in {" "} |-> 1] @@ [c \in {"_"} |-> 2]
       @@ [a |-> 3, c |-> 4, d |-> 5, e |-> 6, g |-> 7, h |-> 8, i |-> 9, k |-> 10,
           l |-> 11, m |-> 12, n |-> 13, o |-> 14, p |-> 15, q |-> 16, r |-> 17,
           s |-> 18, t |-> 19, u |-> 20, x |-> 21]

\* The first index from i on where two strings differ in a letter (primary)
\* or in a character; 0 when one of them ends before.
RECURSIVE Differs(_, _, _, _)
Differs(a, b, i, primary) ==
  IF i > Len(a) \/ i > Len(b) THEN 0
  ELSE IF (primary /\ Ord[Lower(a[i])] # Ord[Lower(b[i])]) \/ (~primary /\ a[i] # b[i]) THEN i
  ELSE Differs(a, b, i + 1, primary)

\* The sign of a difference at index i.
Sign(a, b, i) == IF Ord[Lower(a[i])] < Ord[Lower(b[i])] THEN -1 ELSE 1

\* a.localeCompare(b): the first difference of the letters decides, case
\* aside; then the length; between strings that differ in case only, lower
\* case comes first.
localeCompare(a, b) ==
  IF Differs(a, b, 1, TRUE) # 0 THEN Sign(a, b, Differs(a, b, 1, TRUE))
  ELSE IF Len(a) # Len(b) THEN (IF Len(a) < Len(b) THEN -1 ELSE 1)
  ELSE IF Differs(a, b, 1, FALSE) = 0 THEN 0
  ELSE IF a[Differs(a, b, 1, FALSE)] = Lower(a[Differs(a, b, 1, FALSE)]) THEN -1 ELSE 1

\* A form element: its tag, name, type attribute, the number of its options
\* that have a value and a text, the label found for it (empty: none), and
\* its required attribute.
Element(tag, name, type, options, label, required) ==
  [tag |-> tag, name |-> name, type |-> type, options |-> options, label |-> label,
   required |-> required]
FormElements ==
  { Element("select", N_group_id, "", 2, <<>>, FALSE),
    Element("select", N_group_id, "", 0, <<>>, FALSE),
    Element("select", N_location_id, "", 2, <<>>, FALSE),
    Element("input", N_notice, "text", 0, <<>>, FALSE),
    Element("input", N_time_in, "text", 0, L_ClockTime, FALSE),
    Element("input", N_check_in, "text", 0, L_ClockTime, TRUE),
    Element("input", N_memo, "text", 0, <<>>, TRUE),
    Element("input", N_token, "hidden", 0, <<>>, FALSE),
    Element("textarea", N_memo, "", 0, <<>>, FALSE) }
Pages == UNION {[1..n -> FormElements] : n \in 0..MaxElements}

\* A ClockField, as far as the fingerprint reads it; options is the number
\* of options, NONE when the field has none.
Field(name, type, required, options) ==
  [name |-> name, type |-> type, required |-> required, options |-> options]
Null == Field(<<>>, "null", FALSE, NONE)

parseGroupIdField(e) ==
  IF e.name # N_group_id THEN Null
  ELSE IF e.options = 0 THEN Null
  ELSE Field(N_group_id, "select", TRUE, e.options)

parseNoticeField(e) ==
  IF e.name # N_notice THEN Null
  ELSE Field(N_notice, "text", e.required \/ TRUE, NONE)

parseTimeField(e) ==
  IF e.name = <<>> \/ (~includes(e.name, W_time) /\ ~includes(e.name, W_in)
                       /\ ~includes(e.name, W_out))
    THEN Null
  ELSE IF e.label = <<>> \/ (~includes(toLowerCase(e.label), W_time)
                             /\ ~includes(toLowerCase(e.label), W_clock))
    THEN Null
  ELSE LET isClockIn == includes(toLowerCase(e.name), W_in) \/ includes(toLowerCase(e.label), W_in)
           isClockOut == includes(toLowerCase(e.name), W_out) \/ includes(toLowerCase(e.label), W_out)
           fieldName == IF isClockIn THEN N_clockInTime
                        ELSE IF isClockOut THEN N_clockOutTime ELSE e.name
       IN Field(fieldName, "time", e.required, NONE)

parseTextField(e) ==
  IF e.name = <<>> THEN Null
  ELSE IF e.name \in {N_notice, N_token} THEN Null
  ELSE IF e.type = "hidden" THEN Null
  ELSE Field(e.name, "text", e.required, NONE)

\* CLOCK_FIELD_REGISTRY.get(name), applied.
Registered(e) ==
  IF e.name = N_group_id THEN parseGroupIdField(e)
  ELSE IF e.name = N_notice THEN parseNoticeField(e)
  ELSE Null

\* The first parser's field that is not null.
FirstField(candidates) ==
  LET hits == {i \in DOMAIN candidates : candidates[i] # Null}
  IN IF hits = {} THEN Null ELSE candidates[CHOOSE i \in hits : \A j \in hits : i <= j]

\* What one element of parseClockFields' three loops yields.
FieldOf(e) ==
  CASE e.tag = "select" -> FirstField(<<Registered(e), parseGroupIdField(e)>>)
    [] e.tag = "input" ->
         IF e.type = "hidden" \/ e.name = N_token THEN Null
         ELSE FirstField(<<Registered(e), parseNoticeField(e), parseTimeField(e),
                           parseTextField(e)>>)
    [] OTHER -> Field(e.name, "text", e.required, NONE)

\* The three loops: an element without a name or with a processed name is
\* skipped; a field is pushed and its element's name is marked processed.
RECURSIVE Scan(_, _, _, _)
Scan(elements, i, fields, processedNames) ==
  IF i > Len(elements) THEN fields
  ELSE LET e == elements[i] IN
       IF e.name = <<>> \/ e.name \in processedNames \/ FieldOf(e) = Null
         THEN Scan(elements, i + 1, fields, processedNames)
         ELSE Scan(elements, i + 1, Append(fields, FieldOf(e)), processedNames \cup {e.name})

\* parseClockFields: selects, inputs, textareas, then the two time fields if
\* no field has their names.
parseClockFields(html) ==
  LET selects == SelectSeq(html, LAMBDA e : e.tag = "select")
      inputs == SelectSeq(html, LAMBDA e : e.tag = "input")
      textareas == SelectSeq(html, LAMBDA e : e.tag = "textarea")
      fields == Scan(selects \o inputs \o textareas, 1, <<>>, {})
      hasClockInTime == \E i \in DOMAIN fields : fields[i].name = N_clockInTime
      hasClockOutTime == \E i \in DOMAIN fields : fields[i].name = N_clockOutTime
  IN fields
     \o (IF hasClockInTime THEN <<>> ELSE <<Field(N_clockInTime, "time", FALSE, NONE)>>)
     \o (IF hasClockOutTime THEN <<>> ELSE <<Field(N_clockOutTime, "time", FALSE, NONE)>>)

\* [...fields].sort((a, b) => a.name.localeCompare(b.name)): a stable sort,
\* so a field comes after the fields with a smaller name and after the
\* fields with an equal name that stood before it.
RECURSIVE SortByName(_)
SortByName(fields) ==
  IF fields = <<>> THEN <<>>
  ELSE LET n == Len(fields)
           f == fields[n]
           sorted == SortByName(SubSeq(fields, 1, n - 1))
           k == Cardinality({j \in DOMAIN sorted : localeCompare(sorted[j].name, f.name) <= 0})
       IN SubSeq(sorted, 1, k) \o <<f>> \o SubSeq(sorted, k + 1, n - 1)

TypeName(type) == CASE type = "select" -> W_select [] type = "text" -> W_text [] OTHER -> W_time

\* parts.join(":")
Serialize(field) ==
  field.name \o <<":">> \o TypeName(field.type) \o <<":">>
  \o (IF field.required THEN W_required ELSE W_optional)
  \o (IF field.type = "select" /\ field.options # NONE
        THEN <<":">> \o W_options \o <<":">> \o <<ToString(field.options)>>
        ELSE <<>>)

RECURSIVE Join(_)
Join(parts) ==
  IF Len(parts) = 0 THEN <<>>
  ELSE IF Len(parts) = 1 THEN parts[1]
  ELSE parts[1] \o <<"|">> \o Join(Tail(parts))

\* generateFieldSchema
generateFieldSchema(fields) ==
  LET sortedFields == SortByName(fields)
  IN Join([i \in DOMAIN sortedFields |-> Serialize(sortedFields[i])])

NoFetch == [page |-> <<>>, fields |-> <<>>, schema |-> NoSchema, changed |-> FALSE, done |-> FALSE]
NoVariant == [kind |-> "none", fields |-> <<>>, schema |-> NoSchema]

otherVars == <<sessionVars, apiVars, lock, entries, logged, liveSchema, remembered, ui,
               started, inflight, overlap, cacheVars, parseVars, cookieVars>>

\* The page is fetched and parsed, and the fingerprint of its fields is
\* stored, as the form does on submission.
FirstFetch ==
  /\ ~fetch1.done
  /\ LET detectedFields == parseClockFields(page)
         schema == generateFieldSchema(detectedFields)
     IN /\ fetch1' = [NoFetch EXCEPT !.page = page, !.fields = detectedFields,
                                     !.schema = schema, !.done = TRUE]
        /\ storedSchema' = schema
  /\ UNCHANGED <<otherVars, page, fetch2, variant>>

\* The server serves another form.
FormReplaced ==
  /\ fetch1.done /\ ~fetch2.done /\ variant = NoVariant
  /\ page = fetch1.page
  /\ page' \in Pages \ {page}
  /\ UNCHANGED <<otherVars, storedSchema, fetch1, fetch2, variant>>

\* The page is fetched and parsed again, and its fields are compared with
\* the stored fingerprint.
SecondFetch ==
  /\ fetch1.done /\ ~fetch2.done /\ variant = NoVariant
  /\ fetch2' = [NoFetch EXCEPT !.page = page, !.done = TRUE,
                  !.changed = hasFieldSchemaChanged(generateFieldSchema(parseClockFields(page)),
                                                   storedSchema)]
  /\ UNCHANGED <<otherVars, storedSchema, page, fetch1, variant>>

\* The fields of the first fetch in another order.
Rearrange ==
  /\ fetch1.done /\ ~fetch2.done /\ variant = NoVariant
  /\ page = fetch1.page
  /\ LET n == Len(fetch1.fields) IN
     \E p \in [1..n -> 1..n] :
       /\ \A i, j \in 1..n : i # j => p[i] # p[j]
       /\ LET permuted == [i \in 1..n |-> fetch1.fields[p[i]]]
          IN variant' = [kind |-> "permuted", fields |-> permuted,
                         schema |-> generateFieldSchema(permuted)]
  /\ UNCHANGED <<otherVars, storedSchema, page, fetch1, fetch2>>

\* The fields of the first fetch with one field's required flag, type or
\* number of options changed.
Alter ==
  /\ fetch1.done /\ ~fetch2.done /\ variant = NoVariant
  /\ page = fetch1.page
  /\ \E i \in DOMAIN fetch1.fields :
       LET f == fetch1.fields[i] IN
       \/ LET altered == [fetch1.fields EXCEPT ![i].required = ~f.required]
          IN variant' = [kind |-> "required", fields |-> altered,
                         schema |-> generateFieldSchema(altered)]
       \/ \E type \in {"select", "text", "time"} \ {f.type} :
            LET altered == [fetch1.fields EXCEPT ![i].type = type]
            IN variant' = [kind |-> "type", fields |-> altered,
                           schema |-> generateFieldSchema(altered)]
       \/ /\ f.options # NONE
          /\ LET altered == [fetch1.fields EXCEPT ![i].options = f.options + 1]
             IN variant' = [kind |-> "options", fields |-> altered,
                            schema |-> generateFieldSchema(altered)]
  /\ UNCHANGED <<otherVars, storedSchema, page, fetch1, fetch2>>

SchemaIdle == fetch1 = NoFetch /\ fetch2 = NoFetch /\ variant = NoVariant

\* ------------------------------------------------------- Attendance Parser
\* A value that is not there (undefined).
UNDEFINED == "undefined"
\* !!x of an optional string.
Truthy(x) == x # UNDEFINED /\ x # ""

\* The status codes a raw entry may carry: the four known ones and another.
KNOWN_STATUS_CODES == {"A", "L", "PV", "SH"}
StatusCodes == KNOWN_STATUS_CODES \cup {"X"}
RECURSIVE SeqsUpTo(_, _)
SeqsUpTo(S, n) ==
  IF n = 0 THEN {<<>>}
  ELSE SeqsUpTo(S, n - 1) \cup {Append(q, x) : q \in {p \in SeqsUpTo(S, n - 1) : Len(p) = n - 1}, x \in S}

\* Array.prototype.includes
Has(list, x) == \E i \in DOMAIN list : list[i] = x

\* AttendanceEntryRaw, as far as transformAttendanceEntry reads it.
OptionalTexts == {UNDEFINED, "", "10:00"}
Raws == [date : {"2025-11-05"}, holidayType : {UNDEFINED, "National"},
         clockIn : OptionalTexts, clockOut : OptionalTexts, workingHours : OptionalTexts,
         status : SeqsUpTo(StatusCodes, MaxCodes), isPending : BOOLEAN]
NoRaw == [date |-> UNDEFINED, holidayType |-> UNDEFINED, clockIn |-> UNDEFINED,
          clockOut |-> UNDEFINED, workingHours |-> UNDEFINED, status |-> <<>>,
          isPending |-> FALSE]
NoEntry == [date |-> UNDEFINED, holidayType |-> UNDEFINED, clockIn |-> UNDEFINED,
            clockOut |-> UNDEFINED, workingHours |-> UNDEFINED, status |-> "none",
            rawStatus |-> <<>>, isLogged |-> FALSE, isHoliday |-> FALSE]

\* A variant that tests the late code before the absence code.
PrimaryStatus_LateBeforeAbsence(r, isLogged, isHoliday) ==
  IF r.isPending THEN "pending"
  ELSE IF isHoliday /\ isLogged THEN "holiday_work"
  ELSE IF isLogged THEN "logged"
  ELSE IF Has(r.status, "L") THEN "late"
  ELSE IF Has(r.status, "A") THEN "absence"
  ELSE IF Has(r.status, "PV") THEN "paid_vacation"
  ELSE IF Has(r.status, "SH") THEN "substitution_holiday"
  ELSE IF isHoliday THEN "holiday"
  ELSE "unlogged"

\* A variant that tests fully logged before the holiday label.
PrimaryStatus_LoggedBeforeHoliday(r, isLogged, isHoliday) ==
  IF r.isPending THEN "pending"
  ELSE IF isLogged THEN "logged"
  ELSE IF isHoliday /\ isLogged THEN "holiday_work"
  ELSE IF Has(r.status, "A") THEN "absence"
  ELSE IF Has(r.status, "L") THEN "late"
  ELSE IF Has(r.status, "PV") THEN "paid_vacation"
  ELSE IF Has(r.status, "SH") THEN "substitution_holiday"
  ELSE IF isHoliday THEN "holiday"
  ELSE "unlogged"

\* A variant that tests the holiday label before the status codes.
PrimaryStatus_HolidayBeforeCodes(r, isLogged, isHoliday) ==
  IF r.isPending THEN "pending"
  ELSE IF isHoliday /\ isLogged THEN "holiday_work"
  ELSE IF isLogged THEN "logged"
  ELSE IF isHoliday THEN "holiday"
  ELSE IF Has(r.status, "A") THEN "absence"
  ELSE IF Has(r.status, "L") THEN "late"
  ELSE IF Has(r.status, "PV") THEN "paid_vacation"
  ELSE IF Has(r.status, "SH") THEN "substitution_holiday"
  ELSE "unlogged"

\* The if-chain of transformAttendanceEntry.
PrimaryStatus(r, isLogged, isHoliday) ==
  IF r.isPending THEN "pending"
  ELSE IF isHoliday /\ isLogged THEN "holiday_work"
  ELSE IF isLogged THEN "logged"
  ELSE IF Has(r.status, "A") THEN "absence"
  ELSE IF Has(r.status, "L") THEN "late"
  ELSE IF Has(r.status, "PV") THEN "paid_vacation"
  ELSE IF Has(r.status, "SH") THEN "substitution_holiday"
  ELSE IF isHoliday THEN "holiday"
  ELSE "unlogged"

transformAttendanceEntry(r) ==
  LET isLogged == Truthy(r.clockIn) /\ Truthy(r.clockOut) /\ Truthy(r.workingHours)
      isHoliday == Truthy(r.holidayType)
  IN [date |-> r.date, holidayType |-> r.holidayType, clockIn |-> r.clockIn,
      clockOut |-> r.clockOut, workingHours |-> r.workingHours,
      status |-> PrimaryStatus(r, isLogged, isHoliday), rawStatus |-> r.status,
      isLogged |-> isLogged, isHoliday |-> isHoliday]

\* Text is a sequence of pieces; " " is white space.  String.prototype.trim
\* drops the white space at both ends and the rest is read as one string.
RECURSIVE trimStart(_)
trimStart(text) == IF text # <<>> /\ Head(text) = " " THEN trimStart(Tail(text)) ELSE text
RECURSIVE trimEnd(_)
trimEnd(text) ==
  IF text # <<>> /\ text[Len(text)] = " " THEN trimEnd(SubSeq(text, 1, Len(text) - 1)) ELSE text
RECURSIVE Glue(_)
Glue(text) == IF text = <<>> THEN "" ELSE Head(text) \o Glue(Tail(text))
trim(text) == Glue(trimEnd(trimStart(text)))
\* cell.text.trim() || undefined
OrUndefined(str) == IF str = "" THEN UNDEFINED ELSE str

\* The date anchor of cell 0: none, one whose text does not match
\* MM/DD(dow), or one that does.
NoAnchor == [kind |-> "none", mm |-> "", dd |-> "", dow |-> ""]
BadAnchor == [kind |-> "text", mm |-> "", dd |-> "", dow |-> ""]
DateAnchor(dd) == [kind |-> "date", mm |-> "11", dd |-> dd, dow |-> "Wed"]
Anchors == {NoAnchor, BadAnchor, DateAnchor("05"), DateAnchor("20")}
\* parseInt(dateMatch[2], 10)
parseInt == [dd \in {"05", "20"} |-> IF dd = "05" THEN 5 ELSE 20]
\* String(n).padStart(2, "0")
padStart(n) == IF n < 10 THEN "0" \o ToString(n) ELSE ToString(n)

\* The status cell: the texts of its bold font tags, its first link (none,
\* one with a font tag, one with text only) and the words of its plain text.
NoLink == [kind |-> "none", text |-> <<>>]
StatusCell(fonts, link, words) == [fonts |-> fonts, link |-> link, words |-> words]
\* /^[A-Z]{1,3}$/ and /\b([A-Z]{1,3})\b/g on the words of the model.
IsCodeLike(word) == word \in StatusCodes

\* The cells of a row past the date: a pending flag, the holiday label, the
\* clock-in, clock-out and working-hours texts, and the status cell.
Body(pending, holiday, clockIn, clockOut, hours, statusCell) ==
  [pending |-> pending, holiday |-> holiday, clockIn |-> clockIn, clockOut |-> clockOut,
   hours |-> hours, statusCell |-> statusCell]
RowBodies ==
  { Body(FALSE, <<>>, <<" ">>, <<>>, <<>>, StatusCell(<<>>, NoLink, <<>>)),
    Body(TRUE, <<>>, <<"10:00">>, <<" ", "19:00">>, <<"08:00", " ">>,
         StatusCell(<<>>, NoLink, <<>>)),
    Body(FALSE, <<"National">>, <<"10:00">>, <<"19:00">>, <<"08:00">>,
         StatusCell(<<>>, NoLink, <<>>)),
    Body(FALSE, <<>>, <<"10:00">>, <<>>, <<>>, StatusCell(<<<<"A">>, <<" ">>>>, NoLink, <<>>)),
    Body(FALSE, <<>>, <<>>, <<>>, <<>>,
         StatusCell(<<<<"PV">>>>, [kind |-> "font", text |-> <<"PV", " ">>], <<>>)),
    Body(FALSE, <<"National">>, <<>>, <<>>, <<>>,
         StatusCell(<<>>, [kind |-> "text", text |-> <<"Late">>], <<"Late", "SH", "SH", "X">>)),
    Body(FALSE, <<>>, <<>>, <<>>, <<>>,
         StatusCell(<<<<"A">>>>, [kind |-> "font", text |-> <<"PV">>], <<>>)),
    Body(FALSE, <<"National">>, <<"10:00">>, <<"19:00">>, <<"08:00">>,
         StatusCell(<<<<"X">>>>, NoLink, <<>>)) }
Rows == {[cells |-> n, anchor |-> a, body |-> b] : n \in {10, 11}, a \in Anchors, b \in RowBodies}

\* A document: whether it has a table body, and the rows of that body.
NoDoc == [tbody |-> FALSE, rows |-> <<>>, given |-> FALSE]
Docs == {[tbody |-> FALSE, rows |-> <<>>, given |-> TRUE]}
        \cup {[tbody |-> TRUE, rows |-> rows, given |-> TRUE] : rows \in SeqsUpTo(Rows, MaxRows)}

\* status.push(x) unless the list has it.
PushNew(list, x) == IF Has(list, x) THEN list ELSE Append(list, x)
RECURSIVE PushAllNew(_, _)
PushAllNew(list, xs) ==
  IF xs = <<>> THEN list ELSE PushAllNew(PushNew(list, Head(xs)), Tail(xs))

\* The status codes of a status cell: the bold font tags; then the link;
\* then, if there is none yet, the code-like words of the cell's text.
StatusOf(cell) ==
  LET fromFonts == SelectSeq([i \in DOMAIN cell.fonts |-> trim(cell.fonts[i])],
                             LAMBDA statusText : statusText # "")
      linkText == trim(cell.link.text)
      fromLink ==
        IF cell.link.kind = "font"
          THEN (IF linkText # "" THEN PushNew(fromFonts, linkText) ELSE fromFonts)
        ELSE IF cell.link.kind = "text"
          THEN (IF linkText # "" /\ IsCodeLike(linkText) THEN PushNew(fromFonts, linkText)
                ELSE fromFonts)
        ELSE fromFonts
  IN IF fromLink = <<>>
       THEN PushAllNew(<<>>, SelectSeq(cell.words, IsCodeLike))
       ELSE fromLink

\* new Date(date) > new Date(): the date lies after the clock's day.
isFutureDate(year, month, day, clock) ==
  \/ year > clock.year
  \/ year = clock.year /\ month > clock.month
  \/ year = clock.year /\ month = clock.month /\ day > clock.day

\* A variant that leaves out the rows of days to come.
parseAttendanceRow_SkipsFutureRows(row, year, month, clock) ==
  IF row.cells < 11 \/ row.anchor.kind # "date"
       \/ isFutureDate(year, month, parseInt[row.anchor.dd], clock)
    THEN [raw |-> NoRaw, debug |-> <<"skipped">>]
  ELSE [raw |-> [date |-> ToString(year) \o "-" \o padStart(month) \o "-"
                          \o padStart(parseInt[row.anchor.dd]),
                 holidayType |-> OrUndefined(trim(row.body.holiday)),
                 clockIn |-> OrUndefined(trim(row.body.clockIn)),
                 clockOut |-> OrUndefined(trim(row.body.clockOut)),
                 workingHours |-> OrUndefined(trim(row.body.hours)),
                 status |-> StatusOf(row.body.statusCell),
                 isPending |-> row.body.pending],
        debug |-> <<>>]

\* parseAttendanceRow: the raw entry (NoRaw for null) and what it logs.
parseAttendanceRow(row, year, month, clock) ==
  IF row.cells < 11 THEN [raw |-> NoRaw, debug |-> <<"cells">>]
  ELSE IF row.anchor.kind = "none" THEN [raw |-> NoRaw, debug |-> <<"no date link">>]
  ELSE IF row.anchor.kind # "date" THEN [raw |-> NoRaw, debug |-> <<"date text">>]
  ELSE
    LET day == parseInt[row.anchor.dd]
        date == ToString(year) \o "-" \o padStart(month) \o "-" \o padStart(day)
        holidayType == OrUndefined(trim(row.body.holiday))
        clockIn == OrUndefined(trim(row.body.clockIn))
        clockOut == OrUndefined(trim(row.body.clockOut))
        workingHours == OrUndefined(trim(row.body.hours))
        status == StatusOf(row.body.statusCell)
        hasUnrecognizedStatus == \E i \in DOMAIN status : status[i] \notin KNOWN_STATUS_CODES
        isHolidayWork == Truthy(holidayType) /\ Truthy(clockIn) /\ Truthy(clockOut)
                         /\ Truthy(workingHours)
        hasUnexpectedData ==
          \/ Has(status, "A") /\ (Truthy(clockIn) \/ Truthy(clockOut))
          \/ Has(status, "PV") /\ (Truthy(clockIn) \/ Truthy(clockOut))
        logs == (hasUnrecognizedStatus \/ (hasUnexpectedData /\ ~isFutureDate(year, month, day, clock)))
                /\ ~isHolidayWork
    IN [raw |-> [date |-> date, holidayType |-> holidayType, clockIn |-> clockIn,
                 clockOut |-> clockOut, workingHours |-> workingHours, status |-> status,
                 isPending |-> row.body.pending],
        debug |-> IF logs THEN <<"unrecognized">> ELSE <<>>]

\* A variant whose loop ends at the first row that yields no entry.
RECURSIVE ParseRows_StopsAtSkippedRow(_, _, _, _)
ParseRows_StopsAtSkippedRow(rows, year, month, clock) ==
  IF rows = <<>> THEN [entries |-> <<>>, debug |-> <<>>]
  ELSE LET first == parseAttendanceRow(Head(rows), year, month, clock)
           rest == ParseRows_StopsAtSkippedRow(Tail(rows), year, month, clock)
       IN IF first.raw = NoRaw THEN [entries |-> <<>>, debug |-> first.debug]
          ELSE [entries |-> <<transformAttendanceEntry(first.raw)>> \o rest.entries,
                debug |-> first.debug \o rest.debug]

\* The loop of parseAttendanceHtml over the rows, and the map over the raw
\* entries.
RECURSIVE ParseRows(_, _, _, _)
ParseRows(rows, year, month, clock) ==
  IF rows = <<>> THEN [entries |-> <<>>, debug |-> <<>>]
  ELSE LET first == parseAttendanceRow(Head(rows), year, month, clock)
           rest == ParseRows(Tail(rows), year, month, clock)
       IN [entries |-> (IF first.raw = NoRaw THEN <<>>
                        ELSE <<transformAttendanceEntry(first.raw)>>) \o rest.entries,
           debug |-> first.debug \o rest.debug]

\* parseAttendanceHtml: the AttendanceResponse, and what was logged.
parseAttendanceHtml(html, year, month, clock) ==
  IF ~html.tbody
    THEN [entries |-> <<>>, year |-> year, month |-> month, debug |-> <<"no tbody">>]
  ELSE LET parsed == ParseRows(html.rows, year, month, clock)
       IN [entries |-> parsed.entries, year |-> year, month |-> month, debug |-> parsed.debug]

\* The requests a document is parsed for.
Requests == {[year |-> 2025, month |-> 9], [year |-> 2025, month |-> 11]}
\* The days the clock may stand at.
Clock(day) == [year |-> 2025, month |-> 11, day |-> day]
Today == {Clock(10), Clock(25)}

\* parseAttendanceHtml is called on the document for some month.
ParseDocument ==
  /\ doc.given
  /\ Len(parses) < 2
  /\ \E q \in Requests :
       parses' = Append(parses, parseAttendanceHtml(doc, q.year, q.month, today))
  /\ UNCHANGED <<sessionVars, apiVars, uiVars, schemaVars, cacheVars, cookieVars, doc, today, raw, processed>>

\* Time passes between two parses.
DayPasses ==
  /\ doc.given
  /\ \E later \in Today : later.day > today.day /\ today' = later
  /\ UNCHANGED <<sessionVars, apiVars, uiVars, schemaVars, cacheVars, cookieVars, doc, parses, raw, processed>>

\* transformAttendanceEntry is applied to the raw entry.
Transform ==
  /\ raw # NoRaw
  /\ processed = NoEntry
  /\ processed' = transformAttendanceEntry(raw)
  /\ UNCHANGED <<sessionVars, apiVars, uiVars, schemaVars, cacheVars, cookieVars, doc, today, parses, raw>>

ParseIdle == doc = NoDoc /\ today = Clock(10) /\ parses = <<>> /\ raw = NoRaw /\ processed = NoEntry

\* ------------------------------------------------------------------- Logout
\* CACHE_KEYS.attendance(year, month) of the two months the list shows.
AttendanceKeys == {"jobcan_attendance_2025_10", "jobcan_attendance_2025_11"}

\* No getCached or setCached call: no key, nothing read, nothing returned.
NoRead == [key |-> "", cached |-> NONE, result |-> "none", at |-> NONE]
RecordsIdle == timestamp = [k \in AttendanceKeys |-> 0] /\ gc = [t \in Tasks |-> NoRead]
CacheIdle == cache = {} /\ sweep = {} /\ RecordsIdle

\* LocalStorage.allItems(): the keys that hold something and start with
\* "jobcan_" (every key the extension writes does).
JobcanKeys ==
  (IF store.sid # NONE THEN {"jobcan_session_cookie"} ELSE {})
  \cup (IF store.cookies # NONE THEN {"jobcan_session_cookies"} ELSE {})
  \cup (IF store.expiry # NONE THEN {"jobcan_session_expiry"} ELSE {})
  \cup (IF storedSchema # NoSchema THEN {"jobcan_clock_fields_schema"} ELSE {})
  \cup (IF remembered # "" THEN {"jobcan_clock_field_value_notice"} ELSE {})
  \cup cache

\* LocalStorage.removeItem(key)
RemoveItem(key) ==
  /\ store' = CASE key = "jobcan_session_cookie" -> [store EXCEPT !.sid = NONE]
                [] key = "jobcan_session_cookies" -> [store EXCEPT !.cookies = NONE]
                [] key = "jobcan_session_expiry" -> [store EXCEPT !.expiry = NONE]
                [] OTHER -> store
  /\ storedSchema' = IF key = "jobcan_clock_fields_schema" THEN NoSchema ELSE storedSchema
  /\ remembered' = IF key = "jobcan_clock_field_value_notice" THEN "" ELSE remembered
  /\ cache' = cache \ {key}

\* clearCache() is called: it runs up to its first await.
CallClearCache(t) == sweep' = sweep \cup {[by |-> t, listed |-> FALSE, keys |-> {}]}

\* clearCache: allItems resolves, then one removeItem per key that was
\* listed, in the order of Object.keys.
clearCache ==
  \E s \in sweep :
    \/ /\ ~s.listed
       /\ sweep' = IF JobcanKeys = {} THEN sweep \ {s}
                   ELSE (sweep \ {s}) \cup {[s EXCEPT !.listed = TRUE, !.keys = JobcanKeys]}
       /\ UNCHANGED <<sessionVars, apiVars, uiVars, schemaVars, cache, timestamp, gc,
                      parseVars, cookieVars>>
    \/ /\ s.listed
       /\ \E key \in s.keys :
            /\ RemoveItem(key)
            /\ sweep' = IF s.keys = {key} THEN sweep \ {s}
                        ELSE (sweep \ {s}) \cup {[s EXCEPT !.keys = @ \ {key}]}
       /\ UNCHANGED <<now, prefs, issued, pc, stack, op, calls, session, res, trace, lg, evs,
                      apiVars, lock, entries, logged, liveSchema, ui, started, inflight,
                      overlap, schemaVars, timestamp, gc, parseVars, cookieVars>>

\* logout, after getStoredSession has returned: the request to the logout
\* endpoint if there is a session, whose failure is only logged; then
\* clearCache() without await, and clearStoredSession().
logout(t) ==
  \/ /\ pc[t] = "out_got"
     /\ IF session[t] # NoSession
          THEN /\ Sent(t, "GET logout")
               /\ Goto(t, "out_fetched")
               /\ UNCHANGED sweep
          ELSE /\ CallClearCache(t)
               /\ Goto(t, "css_sid")
               /\ UNCHANGED trace
     /\ UNCHANGED <<now, prefs, store, issued, op, calls, session, res, lg, evs, apiVars,
                    uiVars, schemaVars, cache, timestamp, gc, parseVars, cookieVars>>
  \/ /\ pc[t] = "out_fetched"
     /\ \E outcome \in {Ok(0), Err("NetworkError")} : res' = [res EXCEPT ![t] = outcome]
     /\ CallClearCache(t)
     /\ Goto(t, "css_sid")
     /\ UNCHANGED <<now, prefs, store, issued, op, calls, session, trace, lg, evs, apiVars,
                    uiVars, schemaVars, cache, timestamp, gc, parseVars, cookieVars>>

\* A caller awaits logout().
StartLogout(t) ==
  /\ Begin(t, "logout")
  /\ pc' = [pc EXCEPT ![t] = "gss_sid"]
  /\ stack' = [stack EXCEPT ![t] = <<"out_got", "done">>]
  /\ UNCHANGED <<now, prefs, store, issued,
                 uiVars, schemaVars, cacheVars, parseVars, cookieVars>>

\* ------------------------------------------------------------------ Cookies
\* A cookie string or a Set-Cookie header is a sequence of pieces: names,
\* values, attribute words, and the separators "=", "; " and ", ".
\* A cookie: its name, its value, and the attributes a Set-Cookie header
\* gives it.
Cookie(name, value, attrs) == [name |-> name, value |-> value, attrs |-> attrs]

RECURSIVE JoinWith(_, _)
\* parts.join(sep)
JoinWith(parts, sep) ==
  IF parts = <<>> THEN <<>>
  ELSE IF Len(parts) = 1 THEN parts[1]
  ELSE parts[1] \o <<sep>> \o JoinWith(Tail(parts), sep)

\* A Cookie request header value: name=value pairs joined by "; ".
CookieString(cookies) ==
  JoinWith([i \in DOMAIN cookies |-> <<cookies[i].name, "=">> \o cookies[i].value], "; ")
\* What headers.get("set-cookie") returns: each cookie with its attributes,
\* joined by ", ".
SetCookieHeader(cookies) ==
  JoinWith([i \in DOMAIN cookies |->
              JoinWith(<<(<<cookies[i].name, "=">> \o cookies[i].value)>> \o cookies[i].attrs,
                       "; ")], ", ")

\* The inputs of mergeCookies: null, cookie strings and Set-Cookie headers.
\* given holds the cookies an input was made of.
NullHeader == [text |-> <<>>, given |-> <<>>]
AsCookieString(cookies) == [text |-> CookieString(cookies), given |-> cookies]
AsSetCookie(cookies) == [text |-> SetCookieHeader(cookies), given |-> cookies]
CookieHeaders ==
  { NullHeader,
    AsCookieString(<<Cookie("sid", <<"1">>, <<>>), Cookie("lang", <<"en">>, <<>>)>>),
    AsSetCookie(<<Cookie("sid", <<"2">>, <<(<<"path", "=", "/">>), <<"secure">>>>),
                  Cookie("lang", <<"ja">>, <<(<<"path", "=", "/">>), <<"HttpOnly">>>>)>>),
    AsSetCookie(<<Cookie("sid", <<"3">>, <<(<<"Path", "=", "/">>), <<"Secure">>>>)>>),
    AsCookieString(<<Cookie("sid", <<"a", "=", "b">>, <<>>)>>),
    AsCookieString(<<Cookie("mode", <<"secure">>, <<>>), Cookie("sid", <<"4">>, <<>>)>>) }

RECURSIVE SplitAt(_, _, _)
\* The pieces of str between the positions in cuts, the separator at each
\* cut left out; from is where the running piece starts.
SplitAt(str, cuts, from) ==
  IF cuts = {} THEN <<SubSeq(str, from, Len(str))>>
  ELSE LET cut == CHOOSE c \in cuts : \A d \in cuts : c <= d
       IN <<SubSeq(str, from, cut - 1)>> \o SplitAt(str, cuts \ {cut}, cut + 1)

\* str.split(sep), for a separator that is one piece.
Split(str, sep) == SplitAt(str, {i \in DOMAIN str : str[i] = sep}, 1)

\* \w+: a piece that is a word.
IsWord(piece) == piece \notin {"=", "; ", ", ", " ", "/"}

\* setCookieHeader.split(/,\s*(?=\w+=)/): at each ", " that a word and "="
\* follow.
SplitCookies(str) ==
  SplitAt(str, {i \in DOMAIN str : /\ str[i] = ", "
                                     /\ i + 2 <= Len(str)
                                     /\ IsWord(str[i + 1])
                                     /\ str[i + 2] = "="}, 1)

\* cookieString.match(/^([^;]+)/): the pieces before the first "; ".
BeforeSemicolon(str) == Split(str, "; ")[1]

\* parseCookies: the name=value part of every cookie of a Set-Cookie header.
parseCookies(setCookieHeader) ==
  IF setCookieHeader = <<>> THEN <<>>
  ELSE LET cookieStrings == SplitCookies(setCookieHeader)
           matched == SelectSeq(cookieStrings, LAMBDA c : BeforeSemicolon(c) # <<>>)
       IN JoinWith([i \in DOMAIN matched |-> trimEnd(trimStart(BeforeSemicolon(matched[i])))],
                   "; ")

\* parseCookieString: an input that includes "path=", "secure" or "HttpOnly"
\* is taken for a Set-Cookie header.
parseCookieString(cookieInput) ==
  IF \/ includes(cookieInput, <<"path", "=">>)
     \/ includes(cookieInput, <<"secure">>)
     \/ includes(cookieInput, <<"HttpOnly">>)
    THEN parseCookies(cookieInput)
    ELSE cookieInput

\* allCookies[name] = value: an object keeps its keys in insertion order.
SetEntry(allCookies, name, value) ==
  IF \E i \in DOMAIN allCookies : allCookies[i].name = name
    THEN [i \in DOMAIN allCookies |->
            IF allCookies[i].name = name THEN [name |-> name, value |-> value]
            ELSE allCookies[i]]
    ELSE Append(allCookies, [name |-> name, value |-> value])

RECURSIVE MergeEach(_, _)
\* The forEach of mergeCookies: const [name, value] = cookie.split("=").
MergeEach(allCookies, cookies) ==
  IF cookies = <<>> THEN allCookies
  ELSE LET parts == Split(Head(cookies), "=")
           name == Glue(parts[1])
           value == IF Len(parts) >= 2 THEN Glue(parts[2]) ELSE ""
       IN MergeEach(IF name # "" /\ value # "" THEN SetEntry(allCookies, name, value)
                    ELSE allCookies,
                    Tail(cookies))

RECURSIVE MergeHeaders(_, _)
\* The loop of mergeCookies over its arguments.
MergeHeaders(allCookies, cookieHeaders) ==
  IF cookieHeaders = <<>> THEN allCookies
  ELSE LET header == Head(cookieHeaders)
           cookies == IF header = <<>> THEN <<>> ELSE parseCookieString(header)
       IN MergeHeaders(IF cookies = <<>> THEN allCookies
                       ELSE MergeEach(allCookies, Split(cookies, "; ")),
                       Tail(cookieHeaders))

\* mergeCookies: the entries name=value joined by "; ".
mergeCookies(cookieHeaders) ==
  LET allCookies == MergeHeaders(<<>>, cookieHeaders)
  IN JoinWith([i \in DOMAIN allCookies |-> <<allCookies[i].name, "=", allCookies[i].value>>],
              "; ")

NotMerged == [done |-> FALSE, text |-> <<>>]

\* mergeCookies is called on the headers.
Merge ==
  /\ ~merged.done
  /\ merged' = [done |-> TRUE,
                text |-> mergeCookies([i \in DOMAIN headers |-> headers[i].text])]
  /\ UNCHANGED <<sessionVars, apiVars, uiVars, schemaVars, cacheVars, parseVars, headers>>

CookiesIdle == headers = <<>> /\ merged = NotMerged

Init ==
  SessionInit /\ ApiInit /\ UiFresh /\ SchemaIdle /\ page = <<>> /\ CacheIdle /\ ParseIdle /\ CookiesIdle

Next ==
  \/ Tick
  \/ \E t \in {1} :
       \/ StartEnsureValidSession(t)
       \/ StartGetAttendance(t)
       \/ StartClockInOut(t)
       \/ SessionStep(t)
       \/ getAttendance(t)
       \/ getModifyPageData(t)
       \/ clockInOut(t)

Spec == Init /\ [][Next]_vars

\* The handlers, on a logged-in installation.
InitUI ==
  /\ SessionInit
  /\ prefs = [auto |-> TRUE, email |-> TRUE, password |-> TRUE]
  /\ store # NoSession
  /\ ApiInit
  /\ UiInit
  /\ SchemaIdle /\ page = <<>>
  /\ CacheIdle /\ ParseIdle /\ CookiesIdle

NextUI ==
  \/ FormChanges
  \/ \E t \in Tasks :
       \/ StartLogAll(t)
       \/ handleLogAll(t)
       \/ StartClockInOutDay(t)
       \/ handleClockInOut(t)
       \/ handleSubmit(t)

SpecUI == InitUI /\ [][NextUI]_vars

\* Form Field Discovery on every page of at most MaxElements elements.
InitSchema ==
  /\ SessionInit
  /\ prefs = [auto |-> TRUE, email |-> TRUE, password |-> TRUE]
  /\ store # NoSession
  /\ ApiInit
  /\ UiFresh
  /\ SchemaIdle
  /\ page \in Pages
  /\ CacheIdle /\ ParseIdle /\ CookiesIdle

NextSchema == FirstFetch \/ FormReplaced \/ SecondFetch \/ Rearrange \/ Alter

SpecSchema == InitSchema /\ [][NextSchema]_vars

\* The Attendance Parser on every document of at most MaxRows rows, and
\* transformAttendanceEntry on every raw entry of at most MaxCodes codes.
InitAttendance ==
  /\ SessionInit
  /\ prefs = [auto |-> TRUE, email |-> TRUE, password |-> TRUE]
  /\ store # NoSession
  /\ ApiInit /\ UiFresh /\ SchemaIdle /\ page = <<>> /\ CacheIdle
  /\ today = Clock(10) /\ parses = <<>> /\ processed = NoEntry
  /\ CookiesIdle
  /\ \/ doc \in Docs /\ raw = NoRaw
     \/ doc = NoDoc /\ raw \in Raws

NextAttendance == ParseDocument \/ DayPasses \/ Transform

SpecAttendance == InitAttendance /\ [][NextAttendance]_vars

\* logout on an installation that has used the attendance list: any of the
\* two months cached, a schema and a note remembered or not.
InitLogout ==
  /\ SessionInit /\ ApiInit /\ UiInit /\ SchemaIdle /\ page = <<>> /\ ParseIdle /\ CookiesIdle
  /\ cache \in SUBSET AttendanceKeys
  /\ sweep = {}
  /\ RecordsIdle

NextLogout ==
  \/ Tick
  \/ clearCache
  \/ \E t \in {1} :
       \/ StartLogout(t)
       \/ getStoredSession(t)
       \/ clearStoredSession(t)
       \/ logout(t)

SpecLogout == InitLogout /\ [][NextLogout]_vars

\* Two callers of ensureValidSession at the same time, with re-login
\* configured, on an installation that is logged out or whose session has
\* expired.  The clock stands still while the two calls run.
InitRelogin ==
  /\ now = SESSION + 1
  /\ prefs = [auto |-> TRUE, email |-> TRUE, password |-> TRUE]
  /\ \/ store = NoSession
     \/ store = [sid |-> 0, cookies |-> 0, expiry |-> SESSION]
  /\ issued = 0
  /\ pc = [t \in Tasks |-> "idle"]
  /\ stack = [t \in Tasks |-> <<>>]
  /\ op = [t \in Tasks |-> "none"]
  /\ calls = [t \in Tasks |-> 0]
  /\ session = [t \in Tasks |-> NoSession]
  /\ res = [t \in Tasks |-> NoResult]
  /\ trace = [t \in Tasks |-> <<>>]
  /\ lg = [t \in Tasks |-> NoLogin]
  /\ evs = [t \in Tasks |-> NoDecision]
  /\ ApiInit /\ UiFresh /\ SchemaIdle /\ page = <<>> /\ CacheIdle /\ ParseIdle /\ CookiesIdle

NextRelogin ==
  \E t \in Tasks :
    \/ StartEnsureValidSession(t)
    \/ getStoredSession(t)
    \/ clearStoredSession(t)
    \/ storeSession(t)
    \/ login(t)
    \/ ensureValidSession(t)

SpecRelogin == InitRelogin /\ [][NextRelogin]_vars

\* mergeCookies on every list of at most MaxHeaders headers.
InitCookies ==
  /\ SessionInit
  /\ prefs = [auto |-> TRUE, email |-> TRUE, password |-> TRUE]
  /\ store # NoSession
  /\ ApiInit /\ UiFresh /\ SchemaIdle /\ page = <<>> /\ CacheIdle /\ ParseIdle
  /\ headers \in SeqsUpTo(CookieHeaders, MaxHeaders)
  /\ merged = NotMerged

NextCookies == Merge

SpecCookies == InitCookies /\ [][NextCookies]_vars

\* ------------------------------------------------------------------ claims
Count(seq, x) == Cardinality({i \in DOMAIN seq : seq[i] = x})
First(seq, x) == CHOOSE i \in DOMAIN seq : seq[i] = x /\ \A j \in 1..(i - 1) : seq[j] # x
LoginRequests == {"GET sign_in", "POST sign_in", "GET authorize", "GET callback", "GET redirect"}
LoginAttempts(seq) == Cardinality({i \in DOMAIN seq : seq[i] \in LoginRequests})
\* Auto-relogin is switched off or a credential is not configured.
NoRelogin == ~prefs.auto \/ ~prefs.email \/ ~prefs.password
Finished(t, name) == op[t] = name /\ pc[t] = "done"

\* C1: once ensureValidSession has tested a stored session whose expiry lies
\* at least five minutes after the time of the test, the call is over, its
\* result is the stored identifier, it has sent no request, and the stored
\* session is untouched.
C1_ValidSessionNoNetwork ==
  \A t \in Tasks :
    (/\ op[t] = "ensureValidSession"
     /\ evs[t].path # "none"
     /\ ~Incomplete(evs[t].stored)
     /\ evs[t].stored.expiry - evs[t].at >= BUFFER)
    => /\ pc[t] = "done"
       /\ res[t] = Ok(evs[t].stored.sid)
       /\ trace[t] = <<>>
       /\ store = evs[t].stored

\* A call has returned the identifier of a session that had exactly five
\* minutes left.
C1_Witness ==
  \E t \in Tasks :
    /\ Finished(t, "ensureValidSession")
    /\ ~Incomplete(evs[t].stored)
    /\ evs[t].stored.expiry - evs[t].at = BUFFER
    /\ res[t] = Ok(evs[t].stored.sid)

\* C7 as stated: a stored session with less than five minutes left and no
\* way to re-login always ends ensureValidSession in the session-expired
\* error, without a login attempt.
C7_Original ==
  \A t \in Tasks :
    (/\ Finished(t, "ensureValidSession")
     /\ ~Incomplete(evs[t].stored)
     /\ evs[t].stored.expiry - evs[t].at < BUFFER
     /\ NoRelogin)
    => /\ res[t] = Err("SessionExpiredReloginDisabled")
       /\ LoginAttempts(trace[t]) = 0

\* C7: a stored session with less than five minutes left, and auto-relogin
\* off or a credential missing: ensureValidSession sends no request and
\* fails; with the session-expired error when the session had not expired
\* when it was read, and with the logged-out error, the session purged, when
\* it had.
C7_ExpiredWithoutRelogin ==
  \A t \in Tasks :
    (/\ op[t] = "ensureValidSession"
     /\ evs[t].path # "none"
     /\ ~Incomplete(evs[t].stored)
     /\ evs[t].stored.expiry - evs[t].at < BUFFER
     /\ NoRelogin)
    => /\ pc[t] = "done"
       /\ trace[t] = <<>>
       /\ IF evs[t].stored.expiry < evs[t].readAt
            THEN res[t] = Err("LoggedOut") /\ store = NoSession
            ELSE res[t] = Err("SessionExpiredReloginDisabled") /\ store = evs[t].stored

\* With auto-relogin switched off and both credentials set, a call has failed
\* with the session-expired error on a session that had not expired.
C7_Witness ==
  \E t \in Tasks :
    /\ Finished(t, "ensureValidSession")
    /\ ~prefs.auto /\ prefs.email /\ prefs.password
    /\ ~Incomplete(evs[t].stored)
    /\ evs[t].stored.expiry >= evs[t].at
    /\ evs[t].stored.expiry - evs[t].at < BUFFER
    /\ res[t] = Err("SessionExpiredReloginDisabled")

\* C2 as stated: after an authentication failure of the first response the
\* session is purged, a login is made and the request is sent a second time.
C2_Original ==
  \A t \in Tasks :
    (Finished(t, "getAttendance") /\ att[t].first = "authfail")
    => /\ att[t].purged
       /\ LoginAttempts(trace[t]) > 0
       /\ Count(trace[t], "GET attendance") = 2

\* C2: getAttendance never requests the attendance URL more than twice, and
\* only once unless the first response was an authentication failure.  After
\* such a failure the stored session is purged before anything else; the
\* request is sent a second time exactly when ensureValidSession and the
\* rebuilt headers succeed, and without the means to re-login no login is
\* attempted; the call ends in the terminal authentication error when there
\* is no second request, when it throws, and when its response is not 2xx or
\* is a login page, and succeeds otherwise.
C2_OneRetry ==
  \A t \in Tasks :
    op[t] = "getAttendance" =>
      /\ Count(trace[t], "GET attendance") <= 2
      /\ att[t].first # "authfail" => Count(trace[t], "GET attendance") <= 1
      /\ pc[t] = "att_cleared" => store = NoSession
      /\ (pc[t] = "done" /\ att[t].first = "authfail") =>
           /\ att[t].purged
           /\ Count(trace[t], "GET attendance") = (IF att[t].retry = "none" THEN 1 ELSE 2)
           /\ att[t].retry # "none" => att[t].newSid # NONE /\ att[t].newHeaders # NONE
           /\ NoRelogin => LoginAttempts(trace[t]) = 0 /\ att[t].retry = "none"
           /\ ~NoRelogin => trace[t][First(trace[t], "GET attendance") + 1] = "GET sign_in"
           /\ res[t].ok <=>
                /\ att[t].retry = "answered"
                /\ att[t].retryResponse.status = 200
                /\ ~(att[t].retryResponse.body.signin /\ ~att[t].retryResponse.body.employee)
           /\ ~res[t].ok => res[t].err = "AuthenticationFailedCheckCredentials"

\* A call whose first response was an authentication failure has logged in
\* again, sent the request a second time, got a login page with status 200,
\* and ended in the terminal error.
C2_Witness ==
  \E t \in Tasks :
    /\ Finished(t, "getAttendance")
    /\ att[t].first = "authfail"
    /\ Count(trace[t], "GET attendance") = 2
    /\ att[t].retryResponse.status = 200
    /\ att[t].retryResponse.body.signin
    /\ res[t].err = "AuthenticationFailedCheckCredentials"

\* C3: when the clock-in POST is answered with a status that is not 2xx or
\* with a result other than 1, clockInOut is over, its error names the
\* clock-in step, and no clock-out POST has been sent; no other failure of
\* the clock-in POST is followed by a clock-out POST either.
C3_ClockInFailureStops ==
  \A t \in Tasks :
    (op[t] = "clockInOut" /\ clk[t].clockIn \notin {"none", "result_1"})
    => /\ pc[t] = "done"
       /\ ~res[t].ok
       /\ clk[t].clockIn \in {"result_0", "not_ok"} => res[t] = Err("ClockInFailed")
       /\ Count(trace[t], "POST insert in") = 1
       /\ Count(trace[t], "POST insert out") = 0

\* The clock-in POST was answered with result 0 and the call has failed.
C3_Witness ==
  \E t \in Tasks :
    /\ Finished(t, "clockInOut")
    /\ clk[t].clockIn = "result_0"
    /\ res[t] = Err("ClockInFailed")

\* The fetched modify page lacks a prerequisite of clocking.
Lacks(snapshot) ==
  \/ snapshot.token # "set"
  \/ snapshot.clientId # "set"
  \/ snapshot.employeeId # "set"
  \/ Len(snapshot.spots) = 0

\* C4: when the modify page that clockInOut fetched lacks the token, the
\* client id, the employee id or every spot, the call sends no insert POST
\* and fails.
C4_NoInsertWithoutPrerequisites ==
  \A t \in Tasks :
    (op[t] = "clockInOut" /\ clk[t].page.fetched /\ Lacks(clk[t].page))
    => /\ Count(trace[t], "POST insert in") = 0
       /\ Count(trace[t], "POST insert out") = 0
       /\ pc[t] = "done" => ~res[t].ok

\* A page whose token input is empty, everything else in place, has ended
\* the call with the unsupported-clocking error that lists the token.
C4_Witness ==
  \E t \in Tasks :
    /\ Finished(t, "clockInOut")
    /\ clk[t].page.fetched
    /\ clk[t].page.token = "empty"
    /\ clk[t].page.clientId = "set" /\ clk[t].page.employeeId = "set"
    /\ Len(clk[t].page.spots) > 0
    /\ res[t] = Err("ClockingNotSupported")
    /\ clk[t].missing = <<"token">>
    /\ trace[t] = <<"GET modify">>

\* C5 as stated: two bulk invocations that ran at the same time have not
\* both started clockInOut for one date.
C5_Original ==
  \A r1 \in started, r2 \in started :
    (/\ r1.kind = "bulk" /\ r2.kind = "bulk"
     /\ r1.by # r2.by
     /\ {r1.by, r2.by} \in overlap)
    => r1.date # r2.date

\* C6 as stated: at most one clockInOut started by bulk processing is in
\* flight.
C6_Original == Cardinality({f \in inflight : f.kind = "bulk"}) <= 1

\* C8 as stated: every clockInOut that was started with remembered values and
\* without the form, from the single-day or the bulk handler, was started
\* with a stored fingerprint equal to the live one.
C8_Original ==
  \A r \in started :
    r.kind \in {"bulk", "remembered"} => r.stored # NoSchema /\ r.stored = r.live

\* The page holds a select named group_id.
HasGroupSelect(html) ==
  \E i \in DOMAIN html : html[i].tag = "select" /\ html[i].name = N_group_id

\* The page holds a select named group_id that has an option with a value
\* and a text.
HasUsableGroupSelect(html) ==
  \E i \in DOMAIN html :
    html[i].tag = "select" /\ html[i].name = N_group_id /\ html[i].options > 0

\* C9 as stated: the fields of a fetch in any other order have the same
\* fingerprint, and with one field's required flag, type or number of
\* options changed they have another.
C9_Original ==
  /\ variant.kind = "permuted" => variant.schema = fetch1.schema
  /\ variant.kind \in {"required", "type", "options"} => variant.schema # fetch1.schema

\* C10 as stated: a first fetch with a group_id select and a second fetch
\* without one make hasFieldSchemaChanged return true.
C10_Original ==
  (fetch2.done /\ HasGroupSelect(fetch1.page) /\ ~HasGroupSelect(fetch2.page))
  => fetch2.changed

\* C10: a first fetch with a group_id select that has an option with a value
\* and a text, and a second fetch without a select named group_id, make
\* hasFieldSchemaChanged, on the second fetch's fields and the fingerprint
\* stored at the first, return true.
C10_GroupSelectGone ==
  (fetch2.done /\ HasUsableGroupSelect(fetch1.page) /\ ~HasGroupSelect(fetch2.page))
  => fetch2.changed

\* The select was renamed between the fetches, and the change was reported.
C10_Witness ==
  /\ fetch2.done
  /\ HasUsableGroupSelect(fetch1.page)
  /\ ~HasGroupSelect(fetch2.page)
  /\ \E i \in DOMAIN fetch2.page : fetch2.page[i].name = N_location_id
  /\ fetch2.changed

\* ------------------------------------------------- claims: Attendance Parser
\* Clock-in, clock-out and working hours are all present.
FullyLogged(r) == Truthy(r.clockIn) /\ Truthy(r.clockOut) /\ Truthy(r.workingHours)
\* The precedence of the statuses: each rule's condition on a raw entry.
Precedence(r) ==
  << [applies |-> r.isPending, status |-> "pending"],
     [applies |-> Truthy(r.holidayType) /\ FullyLogged(r), status |-> "holiday_work"],
     [applies |-> FullyLogged(r), status |-> "logged"],
     [applies |-> Has(r.status, "A"), status |-> "absence"],
     [applies |-> Has(r.status, "L"), status |-> "late"],
     [applies |-> Has(r.status, "PV"), status |-> "paid_vacation"],
     [applies |-> Has(r.status, "SH"), status |-> "substitution_holiday"],
     [applies |-> Truthy(r.holidayType), status |-> "holiday"],
     [applies |-> TRUE, status |-> "unlogged"] >>

\* C11: the status transformAttendanceEntry derives from a raw entry is that
\* of the first rule of the precedence that applies to it.
C11_StatusPrecedence ==
  processed # NoEntry =>
    LET rules == Precedence(raw)
        k == CHOOSE i \in DOMAIN rules :
               rules[i].applies /\ \A j \in 1..(i - 1) : ~rules[j].applies
    IN processed.status = rules[k].status

\* An entry with the codes A and L and no clock-out was derived as an absence.
C11_Witness ==
  /\ processed # NoEntry
  /\ ~raw.isPending /\ ~FullyLogged(raw)
  /\ Has(raw.status, "A") /\ Has(raw.status, "L")
  /\ raw.status[1] = "L"
  /\ processed.status = "absence"

\* C12 as stated: a raw entry with a holiday label and clock-in, clock-out and
\* working hours is derived as holiday work.
C12_Original ==
  (processed # NoEntry /\ Truthy(raw.holidayType) /\ FullyLogged(raw))
  => processed.status = "holiday_work"

\* C12: a raw entry that is not pending, with a holiday label and clock-in,
\* clock-out and working hours, is derived as holiday work whatever its
\* status codes.
C12_HolidayWork ==
  (processed # NoEntry /\ ~raw.isPending /\ Truthy(raw.holidayType) /\ FullyLogged(raw))
  => processed.status = "holiday_work"

\* A fully logged holiday with the absence code was derived as holiday work.
C12_Witness ==
  /\ processed # NoEntry
  /\ ~raw.isPending /\ Truthy(raw.holidayType) /\ FullyLogged(raw)
  /\ Has(raw.status, "A")
  /\ processed.status = "holiday_work"

\* C13 as stated: a raw entry with the status PV alone and no clock times is
\* derived as paid vacation, not logged.
C13_Original ==
  (processed # NoEntry /\ raw.status = <<"PV">>
   /\ ~Truthy(raw.clockIn) /\ ~Truthy(raw.clockOut))
  => processed.status = "paid_vacation" /\ ~processed.isLogged

\* C13: a raw entry that is not pending, with the status PV alone and no
\* clock times, is derived as paid vacation, not logged.
C13_PaidVacation ==
  (processed # NoEntry /\ ~raw.isPending /\ raw.status = <<"PV">>
   /\ ~Truthy(raw.clockIn) /\ ~Truthy(raw.clockOut))
  => processed.status = "paid_vacation" /\ ~processed.isLogged

\* A paid vacation on a holiday, with working hours and no clock times, was
\* derived as paid vacation.
C13_Witness ==
  /\ processed # NoEntry
  /\ ~raw.isPending /\ raw.status = <<"PV">>
  /\ ~Truthy(raw.clockIn) /\ ~Truthy(raw.clockOut)
  /\ Truthy(raw.holidayType) /\ Truthy(raw.workingHours)
  /\ processed.status = "paid_vacation" /\ ~processed.isLogged

\* The rows of the document that have 11 cells and a date anchor.
WithAnchor == {i \in DOMAIN doc.rows : doc.rows[i].cells >= 11 /\ doc.rows[i].anchor.kind # "none"}
\* The rows that have 11 cells and a date anchor whose text is MM/DD(dow).
WithDate == {i \in DOMAIN doc.rows : doc.rows[i].cells >= 11 /\ doc.rows[i].anchor.kind = "date"}

C15_Idempotent ==
  \A i, j \in DOMAIN parses :
    (parses[i].year = parses[j].year /\ parses[i].month = parses[j].month)
    => parses[i].entries = parses[j].entries

\* The document was parsed twice for the same month, before and after the
\* day of a row of it: the logs differ, the entries do not.
C15_Witness ==
  /\ Len(parses) = 2
  /\ parses[1].year = parses[2].year /\ parses[1].month = parses[2].month
  /\ parses[1].debug # parses[2].debug
  /\ parses[1].entries # <<>>
  /\ parses[1].entries = parses[2].entries

\* ------------------------------------------------- claims: Clock Executor II

\* C16 as stated: a clockInOut call that is rejected for its empty note has
\* issued no request of any kind.
C16_Original ==
  \A t \in Tasks :
    (op[t] = "clockInOut" /\ pc[t] = "done" /\ res[t] = Err("NotesRequired"))
    => trace[t] = <<>>

\* ------------------------------------------------------------ claims: Logout

\* C17 as stated: when logout() has returned it has not failed, the store
\* holds no Session, and no attendance record is cached.
C17_Original ==
  \A t \in Tasks :
    (op[t] = "logout" /\ pc[t] = "done")
    => (res[t].ok /\ store = NoSession /\ cache = {})

\* ---------------------------------------------------------- claims: Re-login
\* The calls of ensureValidSession that have returned the session of a login
\* of their own.
LoggedIn ==
  {t \in Tasks : /\ op[t] = "ensureValidSession" /\ pc[t] = "done" /\ res[t].ok
                 /\ evs[t].path \in {"login_missing", "login_expired"}}

\* What the login of call t passed to storeSession, with the expiry it
\* computed: login returns the session id, and its cookie string carries the
\* number of that session id.
Written(t) == [sid |-> res[t].val, cookies |-> res[t].val, expiry |-> now + SESSION]

\* C18 as stated: once two overlapping logins have both succeeded, the store
\* holds the triple one of them wrote.
C18_Original == (LoggedIn = Tasks) => \E t \in Tasks : store = Written(t)

\* ------------------------------------------- claims: Authenticated Fetcher II

\* C19 as stated, for the modify page: getModifyPageData reports an expired
\* session exactly for the responses that are authentication failures by
\* getAttendance's test (status 401 or 403, or a login page that carries no
\* authenticated-page marker).
C19_Original ==
  \A t \in Tasks :
    (pc[t] = "clk_validate" /\ clk[t].response # NoResponse)
    => (res[t] = Err("SessionExpiredTryAgain") <=> IsAuthFailure(clk[t].response))

\* ------------------------------------------- claims: Form Field Discovery II

\* C20 as stated: no two of the fields parseClockFields has returned share a
\* name.
C20_Original ==
  fetch1.done =>
    \A i \in DOMAIN fetch1.fields, j \in DOMAIN fetch1.fields :
      fetch1.fields[i].name = fetch1.fields[j].name => i = j

\* ------------------------------------------------ claims: Remembered Values

\* C21 as stated: a remembered value stays stored through every step of
\* logout and of the clearCache it starts, none of which is clearFieldValue
\* or setRememberedFieldValue.
C21_Original == [][remembered # "" => remembered' = remembered]_vars

\* ------------------------------------------------- claims: Session Store II

\* C22 as stated: a stored session with less than five minutes left is never
\* the one getSessionCookies returns the cookies of, and once
\* ensureValidSession has found one it has not returned its identifier and
\* the store no longer holds it.
C22_Original ==
  \A t \in Tasks :
    /\ (pc[t] = "gsc_got" /\ session[t] # NoSession) => session[t].expiry - now >= BUFFER
    /\ (/\ Finished(t, "ensureValidSession")
        /\ ~Incomplete(evs[t].stored)
        /\ evs[t].stored.expiry - evs[t].at < BUFFER)
       => (res[t] # Ok(evs[t].stored.sid) /\ store # evs[t].stored)

\* ------------------------------------------------------------ claims: Login
LastOf(seq) == IF seq = <<>> THEN "none" ELSE seq[Len(seq)]

\* C23: every request of login follows the request of the step before and
\* the answer that lets login go on: the credentials POST follows a sign-in
\* page with a token, the authorize GET a POST answered 200 or 302, the
\* callback GET an authorize answer with a code, and a redirect hop the
\* callback's session cookie or a redirect.
C23_LoginStepsInOrder ==
  [][\A t \in Tasks :
       (trace'[t] # trace[t] /\ trace'[t] # <<>>) =>
         LET request == LastOf(trace'[t])
             before == LastOf(trace[t])
         IN /\ request = "POST sign_in" => (before = "GET sign_in" /\ lg[t].answer = "token")
            /\ request = "GET authorize" =>
                 (before = "POST sign_in" /\ lg[t].answer \in {"200", "302"})
            /\ request = "GET callback" => (before = "GET authorize" /\ lg[t].answer = "code")
            /\ request = "GET redirect" =>
                 \/ before = "GET callback" /\ lg[t].answer = "sid"
                 \/ before = "GET redirect" /\ lg[t].answer = "redirect"]_vars

\* A login has gone through all five steps and ensureValidSession has
\* returned its session.
C23_Witness ==
  \E t \in Tasks :
    /\ Finished(t, "ensureValidSession")
    /\ res[t].ok
    /\ trace[t] = <<"GET sign_in", "POST sign_in", "GET authorize", "GET callback",
                    "GET redirect">>

RECURSIVE Given(_)
Given(hs) == IF hs = <<>> THEN <<>> ELSE Head(hs).given \o Given(Tail(hs))

\* name=value, for every name, with the value of the last cookie of that name.
LastValues(cookies) ==
  {Glue(<<cookies[i].name, "=">> \o cookies[i].value) :
     i \in {k \in DOMAIN cookies : \A j \in (k + 1)..Len(cookies) : cookies[j].name # cookies[k].name}}

\* C25 as stated: the merged string holds exactly one entry per cookie name
\* of the inputs, with the complete value of the last input that has the
\* name, and nothing else.
C25_Original ==
  merged.done =>
    LET items == IF merged.text = <<>> THEN <<>> ELSE Split(merged.text, "; ")
    IN /\ {Glue(items[i]) : i \in DOMAIN items} = LastValues(Given(headers))
       /\ Len(items) = Cardinality(LastValues(Given(headers)))

\* C26: when login has returned a session identifier, the store holds that
\* identifier, the cookies of that login, and as expiry the time storeSession
\* was entered plus the session lifetime.
C26_StoredOnSuccess ==
  \A t \in Tasks :
    (pc[t] = "evs_login" /\ res[t].ok)
    => /\ store = [sid |-> res[t].val, cookies |-> lg[t].cookies, expiry |-> now + SESSION]
       /\ lg[t].sid = res[t].val

\* A login that started when the stored session had expired has returned.
C26_Witness ==
  \E t \in Tasks :
    /\ pc[t] = "evs_login" /\ res[t].ok
    /\ now = SESSION + 1
    /\ store.expiry = SESSION + 1 + SESSION

\* -------------------------------------------------- claims: Clock Executor III

\* C27 as stated: a clockInOut call that reports the expired session of its
\* modify page has purged the Session and has sent the modify-page request a
\* second time before reporting.
C27_Original ==
  \A t \in Tasks :
    (op[t] = "clockInOut" /\ pc[t] = "done" /\ res[t] = Err("SessionExpiredTryAgain"))
    => Count(trace[t], "GET modify") = 2

\* The required data that a fetched modify page does not provide: an input
\* that is absent or has no value, and an empty spot list.
MissingFromPage(snapshot) ==
  {d \in {"token", "client_id", "employee_id", "group_id"} :
     \/ d = "token" /\ snapshot.token # "set"
     \/ d = "client_id" /\ snapshot.clientId # "set"
     \/ d = "employee_id" /\ snapshot.employeeId # "set"
     \/ d = "group_id" /\ snapshot.spots = <<>>}

\* The data that the error of call t names.
NamedMissing(t) ==
  CASE res[t] = Err("NoTokenInput") -> {"token"}
    [] res[t] = Err("NoClientIdInput") -> {"client_id"}
    [] res[t] = Err("NoEmployeeIdInput") -> {"employee_id"}
    [] res[t] = Err("ClockingNotSupported") ->
         {clk[t].missing[i] : i \in DOMAIN clk[t].missing}
    [] OTHER -> {}

\* C28 as stated: a clockInOut call whose modify page lacks required data
\* fails with an error that names every datum the page lacks.
C28_Original ==
  \A t \in Tasks :
    (/\ op[t] = "clockInOut" /\ pc[t] = "done"
     /\ clk[t].page.fetched /\ MissingFromPage(clk[t].page) # {})
    => (~res[t].ok /\ NamedMissing(t) = MissingFromPage(clk[t].page))

\* C28 for pages on which the three inputs are present: every datum without
\* a value is named.
C28_AllInputsPresent ==
  \A t \in Tasks :
    (/\ op[t] = "clockInOut" /\ pc[t] = "done"
     /\ clk[t].page.fetched /\ MissingFromPage(clk[t].page) # {}
     /\ "absent" \notin {clk[t].page.token, clk[t].page.clientId, clk[t].page.employeeId})
    => (~res[t].ok /\ NamedMissing(t) = MissingFromPage(clk[t].page))

\* The spots of a list, by position, whose name contains the value or is
\* contained in it when both are lower-cased.
Matching(value, availableSpots) ==
  {i \in 1..Len(availableSpots) :
     \/ includes(toLowerCase(availableSpots[i].name), toLowerCase(value))
     \/ includes(toLowerCase(value), toLowerCase(availableSpots[i].name))}

\* C29: once clockInOut has sent its first insert POST, the group_id it
\* submits is the supplied value when that is numeric; for another non-empty
\* value it is the id of the first spot in page order whose name contains the
\* value or is contained in it, case-insensitively; and it is the id of the
\* first spot when no value was supplied or no spot matches.
C29_ResolveSpot ==
  \A t \in Tasks :
    (op[t] = "clockInOut" /\ Count(trace[t], "POST insert in") > 0)
    => LET value == clk[t].spot
           spots == clk[t].md.availableSpots
           hits == Matching(value, spots)
       IN /\ spots # <<>>
          /\ IsNumeric(value) => clk[t].groupId = value
          /\ (value # <<>> /\ ~IsNumeric(value) /\ hits # {})
             => \E i \in hits : /\ \A j \in hits : i <= j
                                /\ clk[t].groupId = spots[i].id
          /\ (value = <<>> \/ (~IsNumeric(value) /\ hits = {}))
             => clk[t].groupId = spots[1].id

\* A name that matches the second spot by containing it and the first by
\* containing the spot's name is resolved to the first spot of the page.
C29_Witness ==
  \E t \in Tasks :
    /\ op[t] = "clockInOut" /\ Count(trace[t], "POST insert in") > 0
    /\ clk[t].spot = <<"a", "B">>
    /\ clk[t].md.availableSpots = <<Spot2, Spot1>>
    /\ clk[t].groupId = Spot2.id

\* ------------------------------------------------------ claims: Bulk Locking

\* The bulk clockInOut calls in flight, and those of one invocation.
BulkFlights == {f \in inflight : f.kind = "bulk"}
LockedBy(t) == {f.date : f \in {g \in BulkFlights : g.by = <<t, calls[t]>>}}

\* The dates for which an invocation of handleLogAll has started clockInOut.
ProcessedBy(t) ==
  {r.date : r \in {q \in started : q.kind = "bulk" /\ q.by = <<t, calls[t]>>}}

C31_Original ==
  /\ \A f \in inflight, g \in inflight : f.date = g.date => f = g
  /\ \A f \in inflight : f.date \in lock

\* ------------------------------------------------------- claims: Bulk Batch
\* The invocations of handleLogAll whose loop has ended.
LoopEnded == {t \in Tasks : /\ op[t] = "logAll" /\ pc[t] \in {"la_refetch", "done"}
                            /\ ui[t].values # ""}
Selected(t) == {ui[t].list[i] : i \in DOMAIN ui[t].list}

\* C32 as stated: when the loop of handleLogAll has ended, clockInOut has
\* been started for every selected day, and the success count plus the
\* failure count is the number of selected days.
C32_Original ==
  \A t \in LoopEnded :
    /\ ProcessedBy(t) = Selected(t)
    /\ ui[t].successCount + ui[t].failureCount = Len(ui[t].list)

\* C32: when the loop of handleLogAll has ended, the success count plus the
\* failure count is the number of selected days, every selected day for which
\* clockInOut was not started is among the failed ones, and while the loop
\* runs the days before the current one are all counted, failed ones included.
C32_FailureIsolation ==
  /\ \A t \in LoopEnded :
       /\ ui[t].successCount + ui[t].failureCount = Len(ui[t].list)
       /\ Selected(t) \ ProcessedBy(t) \subseteq ui[t].failed
       /\ Cardinality(ui[t].failed) = ui[t].failureCount
  /\ \A t \in Tasks :
       (op[t] = "logAll" /\ pc[t] = "la_clock")
       => ui[t].successCount + ui[t].failureCount = ui[t].idx - 1

\* The first selected day failed, the second was attempted and succeeded.
C32_Witness ==
  \E t \in LoopEnded :
    /\ ui[t].list = <<1, 2>>
    /\ ProcessedBy(t) = {1, 2}
    /\ ui[t].failed = {1}
    /\ ui[t].successCount = 1 /\ ui[t].failureCount = 1

\* ------------------------------------------------------ Concurrent Fetches
\* Two getAttendance calls side by side, after ensureValidSession has found a
\* valid Session in the store (fetchAttendance's Promise.all).  The calls
\* start at once, or after the Session's lifetime has passed; the clock
\* stands still while they run.
InitFetch ==
  /\ now \in {0, SESSION + 1}
  /\ prefs = [auto |-> TRUE, email |-> TRUE, password |-> TRUE]
  /\ store = [sid |-> 0, cookies |-> 0, expiry |-> SESSION]
  /\ issued = 0
  /\ pc = [t \in Tasks |-> "idle"]
  /\ stack = [t \in Tasks |-> <<>>]
  /\ op = [t \in Tasks |-> "none"]
  /\ calls = [t \in Tasks |-> 0]
  /\ session = [t \in Tasks |-> NoSession]
  /\ res = [t \in Tasks |-> NoResult]
  /\ trace = [t \in Tasks |-> <<>>]
  /\ lg = [t \in Tasks |-> NoLogin]
  /\ evs = [t \in Tasks |-> NoDecision]
  /\ ApiInit /\ UiFresh /\ SchemaIdle /\ page = <<>> /\ CacheIdle /\ ParseIdle /\ CookiesIdle

\* The runs of SpecFetch are those in which at most one of the two calls
\* gets to send login requests; the other call waits at the start of its
\* login.
OnlyLogin(t) == \A u \in Tasks \ {t} : Count(trace[u], "GET sign_in") = 0

NextFetch ==
  \E t \in Tasks :
       \/ StartGetAttendance(t)
       \/ getStoredSession(t)
       \/ clearStoredSession(t)
       \/ storeSession(t)
       \/ OnlyLogin(t) /\ login(t)
       \/ ensureValidSession(t)
       \/ getSessionCookies(t)
       \/ getDefaultHeaders(t)
       \/ getAttendance(t)

SpecFetch == InitFetch /\ [][NextFetch]_vars

\* --------------------------------------------------- claims: Concurrent Fetches
\* The other of the two calls.
Other(t) == CHOOSE u \in Tasks : u # t

\* C33 as stated, on a Session that stays valid: a getAttendance call that has
\* ended while the stored Session was valid has sent its request, as it does
\* when it runs alone; nothing the other call did has kept it from sending.
C33_Original ==
  \A t \in Tasks :
    (op[t] = "getAttendance" /\ pc[t] = "done" /\ now = 0)
    => Count(trace[t], "GET attendance") >= 1

\* C33 for a call that runs alone: it always sends its request.
C33_Alone ==
  \A t \in Tasks :
    (op[t] = "getAttendance" /\ pc[t] = "done" /\ now = 0 /\ op[Other(t)] = "none")
    => Count(trace[t], "GET attendance") >= 1

\* ---------------------------------------------------------- Attendance Cache
\* A variant that takes a record of exactly the TTL's age for expired.
IsExpired_Inclusive(age, ttl) == age >= ttl

\* getCached's test: age > ttl.
IsExpired(age, ttl) == age > ttl

\* The component awaits getCached(key) with the default ttl.
StartGetCached(t) ==
  /\ Begin(t, "getCached")
  /\ \E key \in AttendanceKeys : gc' = [gc EXCEPT ![t] = [NoRead EXCEPT !.key = key]]
  /\ pc' = [pc EXCEPT ![t] = "gc_get"]
  /\ stack' = [stack EXCEPT ![t] = <<"done">>]
  /\ UNCHANGED <<now, prefs, store, issued, uiVars, schemaVars, cache, sweep, timestamp,
                 parseVars, cookieVars>>

\* getCached: getItem; then the age of the record at Date.now(); an expired
\* record is removed before null is returned.
getCached(t) ==
  \/ /\ pc[t] = "gc_get"
     /\ IF gc[t].key \in cache
          THEN /\ gc' = [gc EXCEPT ![t].cached = timestamp[gc[t].key]]
               /\ Goto(t, "gc_age")
               /\ UNCHANGED res
          ELSE /\ gc' = [gc EXCEPT ![t].result = "null", ![t].at = now]
               /\ Return(t, Ok(0))
     /\ UNCHANGED <<now, prefs, store, issued, op, calls, session, trace, lg, evs, apiVars,
                    uiVars, schemaVars, cache, sweep, timestamp, parseVars, cookieVars>>
  \/ /\ pc[t] = "gc_age"
     /\ LET age == now - gc[t].cached IN
        IF IsExpired(age, ATTENDANCE)
          THEN /\ cache' = cache \ {gc[t].key}
               /\ Goto(t, "gc_removed")
               /\ UNCHANGED <<res, gc>>
          ELSE /\ gc' = [gc EXCEPT ![t].result = "data", ![t].at = now]
               /\ Return(t, Ok(0))
               /\ UNCHANGED cache
     /\ UNCHANGED <<now, prefs, store, issued, op, calls, session, trace, lg, evs, apiVars,
                    uiVars, schemaVars, sweep, timestamp, parseVars, cookieVars>>
  \/ /\ pc[t] = "gc_removed"
     /\ gc' = [gc EXCEPT ![t].result = "null", ![t].at = now]
     /\ Return(t, Ok(0))
     /\ UNCHANGED <<now, prefs, store, issued, op, calls, session, trace, lg, evs, apiVars,
                    uiVars, schemaVars, cache, sweep, timestamp, parseVars, cookieVars>>

\* The component awaits setCached(key, data).
StartSetCached(t) ==
  /\ Begin(t, "setCached")
  /\ \E key \in AttendanceKeys : gc' = [gc EXCEPT ![t] = [NoRead EXCEPT !.key = key]]
  /\ pc' = [pc EXCEPT ![t] = "sc_stamp"]
  /\ stack' = [stack EXCEPT ![t] = <<"done">>]
  /\ UNCHANGED <<now, prefs, store, issued, uiVars, schemaVars, cache, sweep, timestamp,
                 parseVars, cookieVars>>

\* setCached: the record gets Date.now() as its timestamp and is written.
setCached(t) ==
  /\ pc[t] = "sc_stamp"
  /\ timestamp' = [timestamp EXCEPT ![gc[t].key] = now]
  /\ cache' = cache \cup {gc[t].key}
  /\ gc' = [gc EXCEPT ![t].at = now]
  /\ Return(t, Ok(0))
  /\ UNCHANGED <<now, prefs, store, issued, op, calls, session, trace, lg, evs, apiVars,
                 uiVars, schemaVars, sweep, parseVars, cookieVars>>

\* The attendance list reads and writes its cache: any of the two months
\* cached by an earlier run, two calls side by side, time passing.
InitCache ==
  /\ SessionInit
  /\ prefs = [auto |-> TRUE, email |-> TRUE, password |-> TRUE]
  /\ store # NoSession
  /\ ApiInit /\ UiFresh /\ SchemaIdle /\ page = <<>> /\ ParseIdle /\ CookiesIdle
  /\ cache \in SUBSET AttendanceKeys
  /\ sweep = {}
  /\ RecordsIdle

NextCache ==
  \/ Tick
  \/ \E t \in Tasks :
       \/ StartGetCached(t)
       \/ getCached(t)
       \/ StartSetCached(t)
       \/ setCached(t)

SpecCache == InitCache /\ [][NextCache]_vars

\* --------------------------------------------------- claims: Attendance Cache

\* C34: setCached writes the record with the time of the call as its
\* timestamp; getCached returns the record it read exactly when the record's
\* age at the time of the test is at most the TTL, and otherwise removes the
\* key and returns null; so the age of a returned record is at most the TTL.
C34_NoStaleRead ==
  [][\A t \in Tasks :
       /\ (pc[t] = "sc_stamp" /\ pc'[t] # "sc_stamp")
          => (gc[t].key \in cache' /\ timestamp'[gc[t].key] = now)
       /\ (pc[t] = "gc_age" /\ pc'[t] # "gc_age")
          => IF now - gc[t].cached <= ATTENDANCE
               THEN gc'[t].result = "data" /\ pc'[t] = "done" /\ cache' = cache
               ELSE gc[t].key \notin cache' /\ pc'[t] = "gc_removed"
       /\ (pc[t] = "gc_removed" /\ pc'[t] # "gc_removed") => gc'[t].result = "null"
       /\ (op'[t] = "getCached" /\ gc'[t].result = "data")
          => (gc'[t].cached # NONE /\ gc'[t].at - gc'[t].cached <= ATTENDANCE)]_vars

\* A record written by setCached after the start is read when its age is
\* exactly the TTL, and is returned.
C34_Witness ==
  \E t \in Tasks :
    /\ op[t] = "getCached" /\ pc[t] = "done" /\ gc[t].result = "data"
    /\ gc[t].cached > 0
    /\ gc[t].at - gc[t].cached = ATTENDANCE

\* --------------------------------------------------- claims: Raw Status

\* The parses of a document all of whose rows yielded an entry: entry i is
\* the entry of row i.
RowwiseParses == {i \in DOMAIN parses : Len(parses[i].entries) = Len(doc.rows)}

\* The texts of the bold font tags of a status cell that have text.
BoldTexts(cell) ==
  SelectSeq([i \in DOMAIN cell.fonts |-> trim(cell.fonts[i])], LAMBDA text : text # "")

\* The status an anchor yields by itself: its inner font's text, or its own
\* text when that is 1-3 uppercase letters.
AnchorTexts(cell) ==
  IF cell.link.kind = "font" /\ trim(cell.link.text) # "" THEN <<trim(cell.link.text)>>
  ELSE IF cell.link.kind = "text" /\ IsCodeLike(trim(cell.link.text))
    THEN <<trim(cell.link.text)>>
  ELSE <<>>

\* C35 as stated: the raw status of a row is the texts of the bold font tags
\* of its status cell when one of them has text; otherwise what the anchor
\* yields; and the code-like words of the cell's text only when both are
\* empty.
C35_Original ==
  \A p \in RowwiseParses : \A i \in DOMAIN doc.rows :
    LET cell == doc.rows[i].body.statusCell
        rawStatus == parses[p].entries[i].rawStatus
    IN /\ BoldTexts(cell) # <<>> => rawStatus = BoldTexts(cell)
       /\ (BoldTexts(cell) = <<>> /\ AnchorTexts(cell) # <<>>) => rawStatus = AnchorTexts(cell)
       /\ (BoldTexts(cell) = <<>> /\ AnchorTexts(cell) = <<>>)
          => \A j \in DOMAIN rawStatus : Has(cell.words, rawStatus[j])

\* C36 as stated: when a document has been parsed, there are at least as many
\* 'Unrecognized attendance pattern' logs as entries whose raw status holds
\* a code outside the known ones, and such a code of a bold font tag is in
\* the entry's raw status.
C36_Original ==
  \A p \in RowwiseParses :
    /\ Count(parses[p].debug, "unrecognized")
         >= Cardinality({i \in DOMAIN parses[p].entries :
                           \E j \in DOMAIN parses[p].entries[i].rawStatus :
                             parses[p].entries[i].rawStatus[j] \notin KNOWN_STATUS_CODES})
    /\ \A i \in DOMAIN doc.rows :
         Has(BoldTexts(doc.rows[i].body.statusCell), "X")
         => Has(parses[p].entries[i].rawStatus, "X")

\* ------------------------------------------------- claims: Session Store II
\* The labels at which login awaits the answer to one of its requests.
LoginSteps == {"login_page", "login_post", "login_authorize", "login_callback",
               "login_redirect"}

\* C37: a failed login writes nothing to the Session store: no step of login
\* before its storeSession call changes one of the three session keys, login
\* throws only from such a step (the sign-in page, the credentials POST, the
\* authorize GET, the callback or a redirect hop), never once storeSession
\* has begun, and when a login that was started for a session about to
\* expire has failed, the store still holds the session that was read
\* before the call.
C37_FailedLoginWritesNothing ==
  /\ [][\A t \in Tasks : pc[t] \in LoginSteps => store' = store]_vars
  /\ [][\A t \in Tasks :
          (pc[t] # "evs_login" /\ pc'[t] = "evs_login" /\ ~res'[t].ok)
            => pc[t] \in LoginSteps]_vars
  /\ [](\A t \in Tasks :
          (pc[t] = "evs_login" /\ ~res[t].ok /\ evs[t].path = "login_expired")
            => store = evs[t].session)

\* A login that had received a session identifier from the callback has
\* failed on a redirect to the login page, and the store holds the session
\* of before.
C37_Witness ==
  \E t \in Tasks :
    /\ pc[t] = "evs_login"
    /\ res[t] = Err("RedirectedToLogin")
    /\ lg[t].sid # NONE
    /\ store # NoSession
    /\ store.sid # lg[t].sid

\* ------------------------------------------------------- claims: Login II
\* The answers to a request of login after which login goes on or ends
\* without an error.
Harmless == {"sid", "200_employee", "200_other", "redirect", "redirect_no_location", "other"}

\* C38: when login has returned after the callback yielded a session
\* identifier and no redirect hop raised an error, it has returned the
\* newest identifier it received and the store holds that identifier and
\* the cookies of that login; the hops may have ended on a 200 response, on
\* the fifth redirect, on a redirect without a Location header, or on a
\* status that is neither 200 nor a redirect.
C38_StoredWithout200 ==
  \A t \in Tasks :
    (pc[t] = "evs_login" /\ lg[t].sid # NONE /\ lg[t].answer \in Harmless)
    => /\ res[t] = Ok(lg[t].sid)
       /\ store.sid = lg[t].sid
       /\ store.cookies = lg[t].cookies

\* A login whose hops ended on a status that is neither 200 nor a redirect
\* has returned its session identifier.
C38_Witness ==
  \E t \in Tasks :
    /\ pc[t] = "evs_login"
    /\ lg[t].answer = "other"
    /\ Count(trace[t], "GET redirect") = 2
    /\ res[t] = Ok(lg[t].sid)
    /\ store.sid = lg[t].sid

\* ------------------------------------------------ claims: Confirmation Form
\* The submission of the confirmation form of task t, while it is running.
FormFlight(t) == Flight(t, ui[t].date, "form")

\* C39: in the confirmation form's submit handler the remember decision is
\* persisted first (the submitted value is stored or the stored value is
\* cleared), then the fingerprint of the form's fields, and only then is
\* clockInOut started; while the submission runs and when it ends, failed
\* or not, the handler writes neither the remembered value nor the stored
\* fingerprint again.
C39_PersistedBeforeClock ==
  [][\A t \in Tasks :
       /\ (pc[t] = "form" /\ pc'[t] # "done" /\ pc'[t] # "form")
            => (pc'[t] = "form_schema" /\ remembered' \in {ui'[t].values, ""}
                /\ inflight' = inflight)
       /\ (FormFlight(t) \notin inflight /\ FormFlight(t) \in inflight')
            => (pc[t] = "form_schema" /\ storedSchema' = ui[t].fields
                /\ remembered' = remembered)
       /\ (FormFlight(t) \in inflight /\ FormFlight(t) \notin inflight')
            => (storedSchema' = storedSchema /\ remembered' = remembered)]_vars

\* A submission of the form has failed; the note it asked to remember and
\* the fingerprint of its fields, which differs from the one stored at the
\* start, are stored.
C39_Witness ==
  \E t \in Tasks :
    /\ pc[t] = "form"
    /\ \E r \in started : r.kind = "form" /\ r.by = <<t, calls[t]>>
    /\ FormFlight(t) \notin inflight
    /\ ui[t].date \notin logged
    /\ ui[t].values = "note"
    /\ remembered = "note"
    /\ storedSchema = ui[t].fields
    /\ \A u \in Tasks \ {t} : pc[u] = "idle"

\* ------------------------------------------------ claims: Clock Executor IV
\* The positions of a request in a trace.
Positions(seq, x) == {i \in DOMAIN seq : seq[i] = x}

\* C40: one clockInOut call sends at most one modify-page GET, one clock-in
\* POST and one clock-out POST, in that order: the clock-in POST after the
\* page was fetched, validated and the spot resolved, the clock-out POST
\* directly after an accepted clock-in POST; a call that succeeded has had
\* both accepted; and when the clock-out POST has failed after an accepted
\* clock-in POST the call has ended with an error and that POST is the last
\* request it sent.
C40_SubmissionSequence ==
  \A t \in Tasks :
    op[t] = "clockInOut" =>
      LET fetches == Positions(trace[t], "GET modify")
          ins == Positions(trace[t], "POST insert in")
          outs == Positions(trace[t], "POST insert out")
      IN /\ Cardinality(fetches) <= 1 /\ Cardinality(ins) <= 1 /\ Cardinality(outs) <= 1
         /\ \A i \in ins :
              /\ \E f \in fetches : f < i
              /\ validateClockingSupport(clk[t].md).supported
              /\ clk[t].groupId = ResolveSpot(clk[t].spot, clk[t].md.availableSpots)
              /\ clk[t].notes # ""
         /\ \A o \in outs : (o - 1) \in ins /\ clk[t].clockIn = "result_1"
         /\ (pc[t] = "done" /\ res[t].ok)
              => (clk[t].clockIn = "result_1" /\ clk[t].clockOut = "result_1"
                  /\ LastOf(trace[t]) = "POST insert out")
         /\ (clk[t].clockIn = "result_1" /\ clk[t].clockOut \notin {"none", "result_1"})
              => /\ pc[t] = "done"
                 /\ ~res[t].ok
                 /\ LastOf(trace[t]) = "POST insert out"

\* The clock-in POST was accepted, the clock-out POST was answered with
\* result 0, and the call has failed after exactly those two POSTs.
C40_Witness ==
  \E t \in Tasks :
    /\ Finished(t, "clockInOut")
    /\ clk[t].clockIn = "result_1"
    /\ clk[t].clockOut = "result_0"
    /\ res[t] = Err("ClockOutFailed")
    /\ Count(trace[t], "POST insert in") = 1
    /\ Count(trace[t], "POST insert out") = 1

====
